---- MODULE Spec2Model ----
(***************************************************************************)
(* A model of the repository's backtesting subsystem:                      *)
(*   - src/backtesting/backtest_engine.py  BacktestEngine  (cash+positions *)
(*     ledger, commission, slippage, equity curve, results)                *)
(*   - src/risk/risk_manager.py            RiskManager (position sizing)   *)
(*   - src/strategies/base.py, moving_average.py  BaseStrategy life cycle  *)
(*   - src/backtest/runner.py              BacktestRunner.run              *)
(*   - src/trading/strategy.py             MovingAverageCrossover signals  *)
(* and of the services around it:                                          *)
(*   - src/trading/risk_manager.py         RiskManager (open positions,    *)
(*     stops, booking of closed trades)                                    *)
(*   - src/backtest/risk_metrics.py        max_drawdown                    *)
(*   - src/load.py, src/transform.py       load_data, transform_data       *)
(*   - src/crypto_api.py                   get_crypto_price                *)
(*   - src/alerts.py                       PriceMonitor                    *)
(* and of the trading loops:                                              *)
(*   - src/trading/backtest_engine.py      BacktestEngine.run              *)
(*   - src/trading/live_trader.py          LiveTrader.start                *)
(* Each part has its own specification; the variables of the other parts   *)
(* keep their initial values in it.                                        *)
(*                                                                         *)
(* Python floats are modelled as exact rationals [n, d] in lowest terms    *)
(* with d > 0; rounding of IEEE doubles is outside the model.              *)
(***************************************************************************)
EXTENDS Integers, Sequences, FiniteSets, TLC

VARIABLES
    \* ---- BacktestEngine (src/backtesting/backtest_engine.py) ----
    epc,            \* where the engine is: "idle", "running", "returned", "raised"
    eerr,           \* the exception that ended the last run, or "none"
    data,           \* self.data: the close column of the DataFrame given to run()
    intIndex,       \* TRUE when data.index holds integer labels (RangeIndex)
    bar,            \* number of bars of data processed so far (loop variable i)
    cash,           \* portfolio['cash']
    positions,      \* portfolio['positions']: symbol -> [size, entry_price, entry_time]
    equity,         \* portfolio['equity']
    trades,         \* self.trades
    equity_curve,   \* self.equity_curve
    results,        \* the dictionary run() returned, or NoResults
    \* ---- BaseStrategy instance (src/strategies/base.py) ----
    strat,          \* [signals, positions, returns] of the instance; <<>> is None
    invoked,        \* methods of the instance that have been called
    completed,      \* methods of the instance that have returned normally
    call,           \* the last direct call: [op, outcome]
    \* ---- BacktestRunner (src/backtest/runner.py) ----
    rpc,            \* where run() is: "idle", "running", "returned", "raised"
    rerr,           \* the exception that ended run(), or "none"
    rstrategies,    \* self.strategies: names of the strategy instances
    rsymbols,       \* self.symbols
    si,             \* position of the outer loop in self.strategies
    rdata,          \* data: the frame fetched for the current symbol; <<>> before
    rresults,       \* results
    \* ---- trading MovingAverageCrossover (src/trading/strategy.py) ----
    tparams,        \* [short_window, long_window, signal_threshold] of the instance
    tdata,          \* the close column of the last frame given to generate_signals
    tsignal,        \* the 'signal' column it returned; <<>> before the first call
    \* ---- trading RiskManager (src/trading/risk_manager.py) ----
    current_capital,\* self.current_capital
    rm_positions,   \* self.positions: symbol -> position record
    trade_history,  \* self.trade_history
    rm_ret,         \* the value the last call on the instance returned
    \* ---- max_drawdown (src/backtest/risk_metrics.py, src/risk/risk_manager.py) ----
    dd_call,        \* the last computation: [fn, returns, outcome, max_drawdown]
    \* ---- load_data (src/load.py) and the file system it writes to ----
    fs_dirs,        \* the directories that exist
    fs_files,       \* the files that exist: path -> the format written to it
    load_outcome,   \* how the last load_data call ended
    \* ---- transform_data (src/transform.py) ----
    tr_pc,          \* where transform_data is: "idle", "running", "returned", "raised"
    tr_err,         \* the exception that ended it, or "none"
    tr_list,        \* transformations
    tr_i,           \* number of entries of transformations the loop has passed
    tr_df,          \* df: the transformations applied to the input frame, in order
    \* ---- get_crypto_price (src/crypto_api.py) ----
    gp_pc,          \* where the call is: "idle", "running", "returned", "raised"
    attempt,        \* the loop variable attempt
    responses,      \* what the HTTP requests made so far were answered with
    gp_result,      \* the value returned or the exception type raised, or "none"
    \* ---- PriceMonitor (src/alerts.py) ----
    now,            \* the clock datetime.now() reads, in ticks
    price_log,      \* self.price_log: entries [t, p]
    initial_price,  \* self.initial_price; <<>> is None
    price_file,     \* the content of price_history.json; <<>> when there is none
    measured,       \* the price of the latest log_price call so far; <<>> before
    mon_call,       \* the last call on the monitor and what it did
    \* ---- trading BacktestEngine.run (src/trading/backtest_engine.py) ----
    tb_pc,          \* where run is: "idle", "running", "returned"
    tb_data,        \* data: rows [close, signal, stop_loss, take_profit]
    tb_i,           \* the loop variable i, counted from 1
    tb_position,    \* position; <<>> is None
    tb_results,     \* results: the trades recorded so far
    \* ---- LiveTrader (src/trading/live_trader.py) ----
    lt_pc,          \* where start is: "idle", "fetch", "logic", "update", "sleep", "caught"
    lt_risk_manager, \* the kind of risk manager the trader was built with
    lt_positions,   \* self.positions
    lt_trades,      \* self.trades
    lt_signal,      \* latest_signal of the iteration
    lt_price,       \* the last close of the iteration; 0 between iterations
    lt_ml,          \* ml_prediction of the iteration; <<>> is None
    lt_error        \* what raised the exception the loop caught last, or "none"

engineVars == <<epc, eerr, data, intIndex, bar, cash, positions, equity,
                trades, equity_curve, results>>

stratVars == <<strat, invoked, completed, call>>

runnerVars == <<rpc, rerr, rstrategies, rsymbols, si, rdata, rresults>>

tradingVars == <<tparams, tdata, tsignal>>

backtestVars == <<engineVars, stratVars, runnerVars, tradingVars>>

riskVars == <<current_capital, rm_positions, trade_history, rm_ret>>

drawdownVars == <<dd_call>>

loadVars == <<fs_dirs, fs_files, load_outcome>>

transformVars == <<tr_pc, tr_err, tr_list, tr_i, tr_df>>

cryptoVars == <<gp_pc, attempt, responses, gp_result>>

monitorVars == <<now, price_log, initial_price, price_file, measured, mon_call>>

serviceVars == <<riskVars, drawdownVars, loadVars, transformVars, cryptoVars,
                 monitorVars>>

tradingRunVars == <<tb_pc, tb_data, tb_i, tb_position, tb_results>>

liveVars == <<lt_pc, lt_risk_manager, lt_positions, lt_trades, lt_signal,
             lt_price, lt_ml, lt_error>>

tradeVars == <<tradingRunVars, liveVars>>

vars == <<backtestVars, serviceVars, tradeVars>>

(***************************************************************************)
(* Bounds of the model.                                                    *)
(***************************************************************************)
MaxBars == 2          \* longest DataFrame given to BacktestEngine.run
MaxRows == 3          \* longest frame given to a BaseStrategy
MaxTradingRows == 4   \* longest frame given to the trading MovingAverageCrossover
MaxList == 2          \* longest strategies and symbols lists of a BacktestRunner

Symbols == {"A", "B"}         \* keys a strategy may put in its signals dict
Prices  == {1, 3}             \* close prices of a bar

(***************************************************************************)
(* Exact rational arithmetic standing for Python float arithmetic.         *)
(***************************************************************************)
Abs(x) == IF x < 0 THEN -x ELSE x

RECURSIVE GCD(_, _)
GCD(a, b) == IF b = 0 THEN a ELSE GCD(b, a % b)

LCM(a, b) == (a \div GCD(a, b)) * b

Rat(n, d) ==
    LET g == GCD(Abs(n), Abs(d))
        s == IF d < 0 THEN -1 ELSE 1
    IN  [n |-> s * (n \div g), d |-> s * (d \div g)]

Zero == Rat(0, 1)
One  == Rat(1, 1)

RAdd(a, b) ==
    LET l == LCM(a.d, b.d)
    IN  Rat(a.n * (l \div a.d) + b.n * (l \div b.d), l)

RNeg(a) == [n |-> -a.n, d |-> a.d]

RSub(a, b) == RAdd(a, RNeg(b))

RMul(a, b) ==
    LET g1 == GCD(Abs(a.n), b.d)
        g2 == GCD(Abs(b.n), a.d)
    IN  Rat((a.n \div g1) * (b.n \div g2), (a.d \div g2) * (b.d \div g1))

\* a / b for b # 0
RDiv(a, b) == RMul(a, Rat(b.d, b.n))

RLe(a, b) ==
    LET l == LCM(a.d, b.d)
    IN  a.n * (l \div a.d) <= b.n * (l \div b.d)

RLt(a, b) == RLe(a, b) /\ a # b

(***************************************************************************)
(* RiskManager (src/risk/risk_manager.py)                                  *)
(***************************************************************************)
\* Constructor argument max_position_size (default 0.1); the model's
\* instance is built with 1/2.
max_position_size == Rat(1, 2)

kelly_fraction == Rat(1, 2)

\* RiskManager.calculate_position_size
calculate_position_size(portfolio_value, current_price, volatility) ==
    LET position_size     == RMul(RMul(portfolio_value, max_position_size), kelly_fraction)
        volatility_factor == RDiv(One, RAdd(One, volatility))
    IN  RMul(position_size, volatility_factor)

(***************************************************************************)
(* BacktestEngine (src/backtesting/backtest_engine.py)                     *)
(***************************************************************************)
\* Constructor arguments (defaults 100000.0, 0.001, 0.0005); the model's
\* engine is built with 64, 1/2 and 1/2.
initial_capital == Rat(64, 1)
commission      == Rat(1, 2)
slippage        == Rat(1, 2)

NoResults == [kind |-> "none"]

\* What current_bar['close'].pct_change().std() yields (line 84) when the
\* close cell offers pct_change.  A close that is a plain number has no
\* pct_change, and the expression raises AttributeError: ProcessBarRaise.
Volatilities == {Rat(0, 1), Rat(1, 1)}

\* The dictionaries a strategy may return from generate_signals: a sequence
\* of (symbol, signal) items in the dict's iteration order, no key twice.
SignalValues == {-1, 0, 1}
SignalDicts ==
    {<<>>}
    \cup {<<[symbol |-> s, signal |-> v]>> : s \in Symbols, v \in SignalValues}
    \cup {<<[symbol |-> s1, signal |-> v1], [symbol |-> s2, signal |-> v2]>> :
            <<s1, s2, v1, v2>> \in
               {q \in Symbols \X Symbols \X SignalValues \X SignalValues : q[1] # q[2]}}

HasTrade(signals) == \E k \in 1..Len(signals) : signals[k].signal # 0

\* Line 88: slippage is added for a buy and subtracted for a sell.
execution_price_same_side(current_price, signal) ==
    RMul(current_price, RAdd(One, slippage))

execution_price(current_price, signal) ==
    RMul(current_price, IF signal > 0 THEN RAdd(One, slippage)
                                      ELSE RSub(One, slippage))

\* Line 91: the commission of a trade, on the size computed for this signal.
trade_commission(position_size, price) ==
    RMul(RMul(position_size, price), commission)

\* One iteration of the loop of _execute_trades (lines 76-122) on the
\* ledger p = [cash, positions, trades].
ExecuteOne(p, symbol, signal, close, volatility, eq, time) ==
    IF signal = 0 THEN p
    ELSE
      LET current_price == Rat(close, 1)
          position_size == calculate_position_size(eq, current_price, volatility)
          price         == execution_price(current_price, signal)
          comm          == trade_commission(position_size, price)
          cost          == RAdd(RMul(position_size, price), comm)
      IN  IF signal > 0
          THEN IF RLe(cost, p.cash)
               THEN [cash      |-> RSub(p.cash, cost),
                     positions |-> [s \in DOMAIN p.positions \cup {symbol} |->
                                      IF s = symbol
                                      THEN [size        |-> position_size,
                                            entry_price |-> price,
                                            entry_time  |-> time]
                                      ELSE p.positions[s]],
                     trades    |-> Append(p.trades,
                                     [time |-> time, symbol |-> symbol, type |-> "buy",
                                      price |-> price, size |-> position_size,
                                      commission |-> comm])]
               ELSE p
          ELSE IF symbol \in DOMAIN p.positions
               THEN LET position == p.positions[symbol]
                    IN [cash      |-> RAdd(p.cash,
                                       RSub(RMul(position.size, price), comm)),
                        positions |-> [s \in DOMAIN p.positions \ {symbol} |->
                                         p.positions[s]],
                        trades    |-> Append(p.trades,
                                        [time |-> time, symbol |-> symbol, type |-> "sell",
                                         price |-> price, size |-> position.size,
                                         commission |-> comm])]
               ELSE p

\* BacktestEngine._execute_trades: the items of signals in order.
RECURSIVE execute_trades(_, _, _, _, _, _)
execute_trades(p, signals, close, volatility, eq, time) ==
    IF signals = <<>> THEN p
    ELSE execute_trades(
            ExecuteOne(p, Head(signals).symbol, Head(signals).signal,
                       close, volatility, eq, time),
            Tail(signals), close, volatility, eq, time)

\* Sum of size * close over the open positions held in pos.
RECURSIVE PositionsValue(_, _)
PositionsValue(pos, close) ==
    IF DOMAIN pos = {} THEN Zero
    ELSE LET s == CHOOSE x \in DOMAIN pos : TRUE
         IN  RAdd(RMul(pos[s].size, Rat(close, 1)),
                  PositionsValue([x \in DOMAIN pos \ {s} |-> pos[x]], close))

\* A slip of _update_portfolio: positions valued at their entry price.
RECURSIVE PositionsCost(_)
PositionsCost(pos) ==
    IF DOMAIN pos = {} THEN Zero
    ELSE LET s == CHOOSE x \in DOMAIN pos : TRUE
         IN  RAdd(RMul(pos[s].size, pos[s].entry_price),
                  PositionsCost([x \in DOMAIN pos \ {s} |-> pos[x]]))

update_portfolio_at_entry(c, pos, close) == RAdd(c, PositionsCost(pos))

\* BacktestEngine._update_portfolio: the new portfolio['equity'].
update_portfolio(c, pos, close) == RAdd(c, PositionsValue(pos, close))

\* Number of entries of equity_curve.pct_change().dropna() (line 135): the
\* first entry is NaN, and so is every 0/0.
NumReturns(curve) ==
    Cardinality({k \in 2..Len(curve) : ~(curve[k-1] = Zero /\ curve[k] = Zero)})

RECURSIVE SumPrices(_)
SumPrices(ts) == IF ts = <<>> THEN Zero ELSE RAdd(Head(ts).price, SumPrices(Tail(ts)))

NumSells(ts) == Cardinality({k \in 1..Len(ts) : ts[k].type = "sell"})

\* Trade statistics of _calculate_results (lines 143-150).
win_rate(ts)  == IF ts = <<>> THEN Zero ELSE Rat(NumSells(ts), Len(ts))
avg_trade(ts) == IF ts = <<>> THEN Zero ELSE RDiv(SumPrices(ts), Rat(Len(ts), 1))

\* The exception _calculate_results raises on this equity curve, or "none":
\* equity_curve[-1] (line 138) is a label lookup on an integer index and a
\* positional one otherwise; 252 / len(returns) (line 139) divides by zero
\* when no return is left.
ResultsError(curve, isInt) ==
    IF isInt THEN "KeyError"
    ELSE IF curve = <<>> THEN "IndexError"
    ELSE IF NumReturns(curve) = 0 THEN "ZeroDivisionError"
    ELSE "none"

\* BacktestEngine._calculate_results: the dictionary returned (the metrics
\* annual_return, sharpe_ratio and max_drawdown are left out: they are not
\* rational functions of the curve and no other part of the engine reads them).
calculate_results(curve, ts) ==
    [kind         |-> "results",
     total_return |-> RSub(RDiv(curve[Len(curve)], initial_capital), One),
     win_rate     |-> win_rate(ts),
     avg_trade    |-> avg_trade(ts),
     num_trades   |-> Len(ts),
     equity_curve |-> curve,
     trades       |-> ts]

DataFrames == UNION {[1..n -> Prices] : n \in 0..MaxBars}

EngineInit ==
    /\ epc = "idle"
    /\ eerr = "none"
    /\ data = <<>>
    /\ intIndex = FALSE
    /\ bar = 0
    /\ cash = initial_capital
    /\ positions = <<>>
    /\ equity = initial_capital
    /\ trades = <<>>
    /\ equity_curve = <<>>
    /\ results = NoResults

\* run(), lines 46-56: reset() and the fresh portfolio.
RunStart ==
    /\ epc # "running"
    /\ \E df \in DataFrames, isInt \in BOOLEAN :
          /\ data' = df
          /\ intIndex' = isInt
    /\ epc' = "running"
    /\ eerr' = "none"
    /\ bar' = 0
    /\ trades' = <<>>
    /\ equity_curve' = <<>>
    /\ cash' = initial_capital
    /\ positions' = <<>>
    /\ equity' = initial_capital
    /\ results' = NoResults
    /\ UNCHANGED <<stratVars, runnerVars, tradingVars, serviceVars, tradeVars>>

\* One iteration of the loop of run(), lines 59-67, that completes.
ProcessBar ==
    /\ epc = "running"
    /\ bar < Len(data)
    /\ \E signals \in SignalDicts :
         \E volatility \in IF HasTrade(signals) THEN Volatilities ELSE {Zero} :
           LET close == data[bar + 1]
               p     == execute_trades(
                          [cash |-> cash, positions |-> positions, trades |-> trades],
                          signals, close, volatility, equity, bar + 1)
               eq    == update_portfolio(p.cash, p.positions, close)
           IN  /\ cash' = p.cash
               /\ positions' = p.positions
               /\ trades' = p.trades
               /\ equity' = eq
               /\ equity_curve' = Append(equity_curve, eq)
    /\ bar' = bar + 1
    /\ UNCHANGED <<epc, eerr, data, intIndex, results>>
    /\ UNCHANGED <<stratVars, runnerVars, tradingVars, serviceVars, tradeVars>>

\* An iteration whose first non-zero signal reaches line 84 on a close that
\* is a plain number: AttributeError leaves run() before anything is changed.
ProcessBarRaise ==
    /\ epc = "running"
    /\ bar < Len(data)
    /\ \E signals \in SignalDicts : HasTrade(signals)
    /\ epc' = "raised"
    /\ eerr' = "AttributeError"
    /\ UNCHANGED <<data, intIndex, bar, cash, positions, equity, trades,
                   equity_curve, results>>
    /\ UNCHANGED <<stratVars, runnerVars, tradingVars, serviceVars, tradeVars>>

\* run(), line 69: _calculate_results returns the results dictionary.
RunReturn ==
    /\ epc = "running"
    /\ bar = Len(data)
    /\ ResultsError(equity_curve, intIndex) = "none"
    /\ results' = calculate_results(equity_curve, trades)
    /\ epc' = "returned"
    /\ UNCHANGED <<eerr, data, intIndex, bar, cash, positions, equity, trades,
                   equity_curve>>
    /\ UNCHANGED <<stratVars, runnerVars, tradingVars, serviceVars, tradeVars>>

\* run(), line 69: _calculate_results raises.
RunRaise ==
    /\ epc = "running"
    /\ bar = Len(data)
    /\ ResultsError(equity_curve, intIndex) # "none"
    /\ eerr' = ResultsError(equity_curve, intIndex)
    /\ epc' = "raised"
    /\ UNCHANGED <<data, intIndex, bar, cash, positions, equity, trades,
                   equity_curve, results>>
    /\ UNCHANGED <<stratVars, runnerVars, tradingVars, serviceVars, tradeVars>>

(***************************************************************************)
(* BaseStrategy (src/strategies/base.py) with the generate_signals of      *)
(* MovingAverageCrossover (src/strategies/moving_average.py).              *)
(***************************************************************************)
None    == <<>>
Some(x) == <<x>>

\* A DataFrame given to a strategy: its close column, or no such column
\* (DataFetcher returns pd.DataFrame() when a download fails).
StratPrices  == {1, 2}
NoCloseFrame == [has_close |-> FALSE, close |-> <<>>]
Frames ==
    {NoCloseFrame}
    \cup {[has_close |-> TRUE, close |-> c] :
            c \in UNION {[1..n -> StratPrices] : n \in 0..MaxRows}}

\* Constructor arguments short_window and long_window (defaults 20 and 50);
\* the model's instance is built with 1 and 2.
ma_windows == [short_window |-> 1, long_window |-> 2]

RECURSIVE SumRange(_, _, _)
SumRange(c, lo, hi) == IF lo > hi THEN 0 ELSE c[lo] + SumRange(c, lo + 1, hi)

\* close.rolling(window=w).mean() at row k (1-based) is defined from row w
\* on; short > long compares sum/w as exact fractions.
MeanDefined(k, w) == k >= w
MeanGt(c, k, w1, w2) ==
    /\ MeanDefined(k, w1)
    /\ MeanDefined(k, w2)
    /\ SumRange(c, k - w1 + 1, k) * w2 > SumRange(c, k - w2 + 1, k) * w1

\* MovingAverageCrossover.generate_signals: the 'signal' column.  Rows
\* iloc[long_window:] are the 1-based rows k > long_window.
signal_column(c) ==
    [k \in 1..Len(c) |->
        IF k > ma_windows.long_window
           /\ MeanGt(c, k, ma_windows.short_window, ma_windows.long_window)
        THEN 1 ELSE 0]

\* The outcome of generate_signals(data): the signals frame, or KeyError
\* from data['close'].  self is not touched.
generate_signals(df) ==
    IF df.has_close
    THEN [outcome |-> "ok",
          value   |-> [close |-> df.close, signal |-> signal_column(df.close)]]
    ELSE [outcome |-> "KeyError", value |-> None]

\* data['close'].pct_change() at row k >= 2.
PctChange(c, k) == RDiv(Rat(c[k] - c[k - 1], 1), Rat(c[k - 1], 1))

Max(a, b) == IF a >= b THEN a ELSE b

\* Lines 83-89: signal * price_returns aligned on the union of the two
\* indexes, NaN filled with 0.
strategy_returns(sig, c) ==
    [k \in 1..Max(Len(sig), Len(c)) |->
        IF k >= 2 /\ k <= Len(sig) /\ k <= Len(c)
        THEN RMul(Rat(sig[k], 1), PctChange(c, k))
        ELSE Zero]

\* BaseStrategy.calculate_returns on instance state st: the outcome and the
\* instance state it leaves.
calculate_returns(st, df) ==
    LET gen == generate_signals(df)
    IN  IF ~df.has_close
        THEN [outcome |-> "KeyError", st |-> st]
        ELSE LET sig == IF st.signals = None THEN gen.value ELSE st.signals[1]
                 r   == strategy_returns(sig.signal, df.close)
             IN  [outcome |-> "ok",
                  st |-> [st EXCEPT !.signals = Some(sig), !.returns = Some(r)]]

\* A slip of the guard of calculate_metrics: "if not self.returns".
metrics_outcome_falsy(st) ==
    IF st.returns = None \/ st.returns = Some(<<>>) THEN "ValueError"
    ELSE "ok"

\* BaseStrategy.calculate_metrics: ValueError while self.returns is None
\* (line 101); 252 / len(self.returns) divides by zero on an empty series
\* (line 106).
metrics_outcome(st) ==
    IF st.returns = None THEN "ValueError"
    ELSE IF Len(st.returns[1]) = 0 THEN "ZeroDivisionError"
    ELSE "ok"

\* BaseStrategy.get_positions: ValueError while self.signals is None, else
\* self.positions becomes a copy of the signal column.
get_positions(st) ==
    IF st.signals = None
    THEN [outcome |-> "ValueError", st |-> st]
    ELSE [outcome |-> "ok",
          st |-> [st EXCEPT !.positions = Some(st.signals[1].signal)]]

Methods == {"generate_signals", "calculate_returns", "calculate_metrics",
            "get_positions"}

\* BaseStrategy.__init__
StratInit ==
    /\ strat = [signals |-> None, positions |-> None, returns |-> None]
    /\ invoked = {}
    /\ completed = {}
    /\ call = [op |-> "none", outcome |-> "none"]

Done(op, outcome) == IF outcome = "ok" THEN completed \cup {op} ELSE completed

GenerateSignals ==
    \E df \in Frames :
        LET r == generate_signals(df)
        IN  /\ call' = [op |-> "generate_signals", outcome |-> r.outcome]
            /\ invoked' = invoked \cup {"generate_signals"}
            /\ completed' = Done("generate_signals", r.outcome)
            /\ UNCHANGED strat
            /\ UNCHANGED <<engineVars, runnerVars, tradingVars, serviceVars, tradeVars>>

CalculateReturns ==
    \E df \in Frames :
        LET r   == calculate_returns(strat, df)
            gen == generate_signals(df)
        IN  /\ call' = [op |-> "calculate_returns", outcome |-> r.outcome]
            /\ strat' = r.st
            /\ invoked' = invoked \cup {"calculate_returns"}
                  \cup IF strat.signals = None THEN {"generate_signals"} ELSE {}
            /\ completed' =
                  Done("calculate_returns", r.outcome)
                  \cup IF strat.signals = None /\ gen.outcome = "ok"
                       THEN {"generate_signals"} ELSE {}
            /\ UNCHANGED <<engineVars, runnerVars, tradingVars, serviceVars, tradeVars>>

CalculateMetrics ==
    /\ call' = [op |-> "calculate_metrics", outcome |-> metrics_outcome(strat)]
    /\ invoked' = invoked \cup {"calculate_metrics"}
    /\ completed' = Done("calculate_metrics", metrics_outcome(strat))
    /\ UNCHANGED strat
    /\ UNCHANGED <<engineVars, runnerVars, tradingVars, serviceVars, tradeVars>>

GetPositions ==
    LET r == get_positions(strat)
    IN  /\ call' = [op |-> "get_positions", outcome |-> r.outcome]
        /\ strat' = r.st
        /\ invoked' = invoked \cup {"get_positions"}
        /\ completed' = Done("get_positions", r.outcome)
        /\ UNCHANGED <<engineVars, runnerVars, tradingVars, serviceVars, tradeVars>>

(***************************************************************************)
(* BacktestRunner (src/backtest/runner.py)                                 *)
(***************************************************************************)
StrategyNames == {"ma"}

ListsOver(S) == UNION {[1..n -> S] : n \in 0..MaxList}

RunnerParked ==
    /\ rpc = "idle"
    /\ rerr = "none"
    /\ rstrategies = <<>>
    /\ rsymbols = <<>>
    /\ si = 0
    /\ rdata = None
    /\ rresults = <<>>

\* BacktestRunner.__init__
RunnerInit ==
    /\ rpc = "idle"
    /\ rerr = "none"
    /\ rstrategies \in ListsOver(StrategyNames)
    /\ rsymbols \in ListsOver(Symbols)
    /\ si = 0
    /\ rdata = None
    /\ rresults = <<>>

\* run(), line 50: results = {} and the outer loop is entered.
RunnerStart ==
    /\ rpc # "running"
    /\ rpc' = "running"
    /\ rerr' = "none"
    /\ si' = 1
    /\ rdata' = None
    /\ rresults' = <<>>
    /\ UNCHANGED <<rstrategies, rsymbols>>
    /\ UNCHANGED <<engineVars, stratVars, tradingVars, serviceVars, tradeVars>>

\* The exception the body of the inner loop (lines 57-78) raises for the
\* frame df: generate_signals(data) needs data['close'] (KeyError), and
\* calculate_metrics(signals) passes an argument to a method that takes
\* none (TypeError).
body_outcome(df) ==
    IF generate_signals(df).outcome # "ok" THEN generate_signals(df).outcome
    ELSE "TypeError"

\* The first pass of the inner loop for the current strategy, lines 55-65.
RunnerBody ==
    /\ rpc = "running"
    /\ si <= Len(rstrategies)
    /\ rsymbols # <<>>
    /\ \E df \in Frames :
          /\ rdata' = Some(df)
          /\ rerr' = body_outcome(df)
          /\ completed' = Done("generate_signals", generate_signals(df).outcome)
    /\ invoked' = invoked \cup {"generate_signals"}
    /\ rpc' = "raised"
    /\ UNCHANGED <<rstrategies, rsymbols, si, rresults, strat, call>>
    /\ UNCHANGED <<engineVars, tradingVars, serviceVars, tradeVars>>

\* Line 80 after an inner loop over no symbol: results[strategy.name] = {}.
RunnerNextStrategy ==
    /\ rpc = "running"
    /\ si <= Len(rstrategies)
    /\ rsymbols = <<>>
    /\ rresults' = [n \in DOMAIN rresults \cup {rstrategies[si]} |-> <<>>]
    /\ si' = si + 1
    /\ UNCHANGED <<rpc, rerr, rstrategies, rsymbols, rdata>>
    /\ UNCHANGED <<engineVars, stratVars, tradingVars, serviceVars, tradeVars>>

\* Line 82: return results.
RunnerReturn ==
    /\ rpc = "running"
    /\ si > Len(rstrategies)
    /\ rpc' = "returned"
    /\ UNCHANGED <<rerr, rstrategies, rsymbols, si, rdata, rresults>>
    /\ UNCHANGED <<engineVars, stratVars, tradingVars, serviceVars, tradeVars>>

(***************************************************************************)
(* MovingAverageCrossover of src/trading/strategy.py                       *)
(***************************************************************************)
TradingPrices == {1, 2, 3}
TradingCloses == UNION {[1..n -> TradingPrices] : n \in 0..MaxTradingRows}

\* Constructor arguments the model builds instances with (defaults 20, 50
\* and 0.02).
TradingParams ==
    {[short_window |-> w[1], long_window |-> w[2], signal_threshold |-> t] :
        w \in {<<1, 2>>, <<2, 3>>, <<2, 2>>, <<2, 1>>},
        t \in {Rat(1, 2), Rat(0, 1)}}

MeanLt(c, k, w1, w2) == MeanGt(c, k, w2, w1)

RAbs(a) == [n |-> Abs(a.n), d |-> a.d]

\* A slip of line 43: "<=" for "<".
below_threshold_inclusive(change, threshold) == RLe(RAbs(change), threshold)

\* Line 43: abs(price_change) < self.signal_threshold.
below_threshold(change, threshold) == RLt(RAbs(change), threshold)

\* generate_signals, lines 37-43, at row k: 0, then 1 where short_ma >
\* long_ma, then -1 where short_ma < long_ma, then 0 where the change of the
\* close is below the threshold (the first row's change is NaN).
trading_signal(q, c, k) ==
    LET s0 == 0
        s1 == IF MeanGt(c, k, q.short_window, q.long_window) THEN 1 ELSE s0
        s2 == IF MeanLt(c, k, q.short_window, q.long_window) THEN -1 ELSE s1
    IN  IF k >= 2 /\ below_threshold(PctChange(c, k), q.signal_threshold)
        THEN 0 ELSE s2

trading_generate_signals(q, c) == [k \in 1..Len(c) |-> trading_signal(q, c, k)]

TradingParked ==
    /\ tparams = [short_window |-> 1, long_window |-> 2,
                  signal_threshold |-> Rat(1, 2)]
    /\ tdata = <<>>
    /\ tsignal = None

\* MovingAverageCrossover.__init__
TradingInit ==
    /\ tparams \in TradingParams
    /\ tdata = <<>>
    /\ tsignal = None

TradingGenerateSignals ==
    /\ \E c \in TradingCloses :
          /\ tdata' = c
          /\ tsignal' = Some(trading_generate_signals(tparams, c))
    /\ UNCHANGED tparams
    /\ UNCHANGED <<engineVars, stratVars, runnerVars, serviceVars, tradeVars>>

(***************************************************************************)
(* trading RiskManager (src/trading/risk_manager.py): the positions it     *)
(* tracks, their stop-loss / take-profit / trailing-stop prices, and the   *)
(* capital it books closed trades into.  The 'timestamp' fields, which     *)
(* hold datetime.now(), are not part of the model.                         *)
(***************************************************************************)
MaxTrades == 2

RiskPrices == {8, 16}

RiskSizes == {2}

Sides == {"buy", "sell"}

\* __init__, lines 6-28
rm_initial_capital == Rat(64, 1)

stop_loss_pct == Rat(1, 4)

take_profit_pct == Rat(1, 2)

trailing_stop_pct == Rat(1, 8)

NoReturn == [action |-> "none"]

PositionNotFound == [error |-> "Position not found"]

\* update_position, lines 70-82: the position a first call for a symbol opens
new_position(price, position_size, side) ==
    [size |-> position_size,
     entry_price |-> price,
     side |-> side,
     stop_loss |-> IF side = "buy" THEN RMul(price, RSub(One, stop_loss_pct))
                   ELSE RMul(price, RAdd(One, stop_loss_pct)),
     take_profit |-> IF side = "buy" THEN RMul(price, RAdd(One, take_profit_pct))
                     ELSE RMul(price, RSub(One, take_profit_pct)),
     trailing_stop |-> IF side = "buy"
                       THEN RMul(price, RSub(One, trailing_stop_pct))
                       ELSE RMul(price, RAdd(One, trailing_stop_pct))]

\* The side update_position takes its decisions on: its argument (lines 85, 98).
checked_side(position, side) == side

\* update_position, lines 84-96: the trailing stop after the update
updated_trailing_stop(position, price, side) ==
    IF checked_side(position, side) = "buy"
    THEN IF RLt(position.entry_price, price)
         THEN LET new_stop == RMul(price, RSub(One, trailing_stop_pct))
              IN  IF RLt(position.trailing_stop, new_stop) THEN new_stop
                  ELSE position.trailing_stop
         ELSE position.trailing_stop
    ELSE IF RLt(price, position.entry_price)
         THEN LET new_stop == RMul(price, RAdd(One, trailing_stop_pct))
              IN  IF RLt(new_stop, position.trailing_stop) THEN new_stop
                  ELSE position.trailing_stop
         ELSE position.trailing_stop

\* update_position, lines 98-110: the decision on the updated position
exit_decision(position, price, side) ==
    IF checked_side(position, side) = "buy"
    THEN IF RLe(price, position.stop_loss) \/ RLe(price, position.trailing_stop)
         THEN [action |-> "close", reason |-> "stop_loss"]
         ELSE IF RLe(position.take_profit, price)
         THEN [action |-> "close", reason |-> "take_profit"]
         ELSE [action |-> "hold"]
    ELSE IF RLe(position.stop_loss, price) \/ RLe(position.trailing_stop, price)
         THEN [action |-> "close", reason |-> "stop_loss"]
         ELSE IF RLe(price, position.take_profit)
         THEN [action |-> "close", reason |-> "take_profit"]
         ELSE [action |-> "hold"]

\* update_position, lines 55-110: [positions, ret] after the call
update_position(ps, symbol, price, position_size, side) ==
    IF symbol \notin DOMAIN ps
    THEN LET position == new_position(price, position_size, side)
         IN  [positions |-> [s \in DOMAIN ps \cup {symbol} |->
                                IF s = symbol THEN position ELSE ps[s]],
              ret |-> [action |-> "open",
                       stop_loss |-> position.stop_loss,
                       take_profit |-> position.take_profit,
                       trailing_stop |-> position.trailing_stop]]
    ELSE LET position == [ps[symbol] EXCEPT
                            !.trailing_stop =
                                updated_trailing_stop(ps[symbol], price, side)]
         IN  [positions |-> [ps EXCEPT ![symbol] = position],
              ret |-> exit_decision(position, price, side)]

\* close_position, lines 127-130
position_pnl(position, price) ==
    IF position.side = "buy"
    THEN RMul(RSub(price, position.entry_price), position.size)
    ELSE RMul(RSub(position.entry_price, price), position.size)

\* close_position, lines 136-144: the trade it records
trade_record(symbol, position, price) ==
    [symbol |-> symbol,
     side |-> position.side,
     entry_price |-> position.entry_price,
     exit_price |-> price,
     size |-> position.size,
     pnl |-> position_pnl(position, price)]

\* close_position, line 133: self.current_capital += pnl
booked_capital_from_initial(capital, trade) == RAdd(rm_initial_capital, trade.pnl)

booked_capital(capital, trade) == RAdd(capital, trade.pnl)

\* close_position, lines 123-124, for a symbol that is not in self.positions
close_missing_booking(capital, ps, history, symbol, price) ==
    [capital |-> RSub(capital, price), positions |-> ps, history |-> history,
     ret |-> PositionNotFound]

close_missing(capital, ps, history, symbol, price) ==
    [capital |-> capital, positions |-> ps, history |-> history,
     ret |-> PositionNotFound]

\* close_position, lines 112-148: [capital, positions, history, ret] after it
close_position(capital, ps, history, symbol, price) ==
    IF symbol \notin DOMAIN ps
    THEN close_missing(capital, ps, history, symbol, price)
    ELSE LET trade == trade_record(symbol, ps[symbol], price)
         IN  [capital |-> booked_capital(capital, trade),
              positions |-> [s \in DOMAIN ps \ {symbol} |-> ps[s]],
              history |-> Append(history, trade),
              ret |-> trade]

\* LiveTrader._execute_trading_logic, lines 157-164: the long position it
\* records (the order id is left out)
live_position(price, position_size) ==
    [size |-> position_size,
     entry_price |-> price,
     stop_loss |-> RMul(price, RSub(One, stop_loss_pct)),
     take_profit |-> RMul(price, RAdd(One, take_profit_pct)),
     trailing_stop |-> RMul(price, RSub(One, trailing_stop_pct))]

\* LiveTrader._update_positions, lines 303-308: the trailing stop it leaves
live_trailing_stop(position, price) ==
    IF RLt(position.entry_price, price)
    THEN LET new_trailing_stop == RMul(price, RSub(One, trailing_stop_pct))
         IN  IF RLt(position.trailing_stop, new_trailing_stop)
             THEN new_trailing_stop
             ELSE position.trailing_stop
    ELSE position.trailing_stop

RiskParked ==
    /\ current_capital = rm_initial_capital
    /\ rm_positions = <<>>
    /\ trade_history = <<>>
    /\ rm_ret = NoReturn

\* RiskManager.__init__, lines 20-28
RiskInit == RiskParked

\* the step a call update_position(symbol, price, position_size, side) takes
UpdatePositionCall(symbol, price, position_size, side) ==
    LET r == update_position(rm_positions, symbol, Rat(price, 1),
                             Rat(position_size, 1), side)
    IN  /\ rm_positions' = r.positions
        /\ rm_ret' = r.ret
        /\ UNCHANGED <<current_capital, trade_history>>

UpdatePosition ==
    /\ \E symbol \in Symbols, price \in RiskPrices,
          position_size \in RiskSizes, side \in Sides :
          UpdatePositionCall(symbol, price, position_size, side)
    /\ UNCHANGED <<tradeVars, backtestVars, drawdownVars, loadVars, transformVars,
                   cryptoVars, monitorVars>>

\* the step a call close_position(symbol, price) takes
ClosePositionCall(symbol, price) ==
    LET r == close_position(current_capital, rm_positions, trade_history,
                            symbol, Rat(price, 1))
    IN  /\ current_capital' = r.capital
        /\ rm_positions' = r.positions
        /\ trade_history' = r.history
        /\ rm_ret' = r.ret

ClosePosition ==
    /\ \E symbol \in Symbols, price \in RiskPrices :
          /\ symbol \in DOMAIN rm_positions => Len(trade_history) < MaxTrades
          /\ ClosePositionCall(symbol, price)
    /\ UNCHANGED <<tradeVars, backtestVars, drawdownVars, loadVars, transformVars,
                   cryptoVars, monitorVars>>

(***************************************************************************)
(* max_drawdown of a returns series: calculate_risk_metrics                *)
(* (src/backtest/risk_metrics.py) and RiskManager._calculate_max_drawdown  *)
(* (src/risk/risk_manager.py).  A float is a rational or NaN; the returns  *)
(* are those of a value that stays non-negative (r >= -1), so no infinity  *)
(* arises.                                                                 *)
(***************************************************************************)
MaxReturns == 3

NaN == [n |-> 0, d |-> 0]

IsNaN(x) == x.d = 0

ReturnValues == {Rat(-1, 1), Rat(-1, 2), Zero, One, NaN}

ReturnSeries == UNION {[1..k -> ReturnValues] : k \in 0..MaxReturns}

\* Series.dropna()
dropna(s) == SelectSeq(s, LAMBDA x : ~IsNaN(x))

\* float arithmetic: NaN propagates, 0/0 is NaN
float_div(a, b) ==
    IF IsNaN(a) \/ IsNaN(b) \/ b = Zero THEN NaN ELSE RDiv(a, b)

float_sub(a, b) == IF IsNaN(a) \/ IsNaN(b) THEN NaN ELSE RSub(a, b)

\* Series.min() and Series.max(): NaN entries are skipped, NaN if none is left
RECURSIVE series_min(_)
series_min(s) ==
    IF s = <<>> THEN NaN
    ELSE LET rest == series_min(Tail(s))
         IN  IF IsNaN(Head(s)) THEN rest
             ELSE IF IsNaN(rest) THEN Head(s)
             ELSE IF RLe(Head(s), rest) THEN Head(s) ELSE rest

RECURSIVE series_max(_)
series_max(s) ==
    IF s = <<>> THEN NaN
    ELSE LET rest == series_max(Tail(s))
         IN  IF IsNaN(Head(s)) THEN rest
             ELSE IF IsNaN(rest) THEN Head(s)
             ELSE IF RLe(rest, Head(s)) THEN Head(s) ELSE rest

\* (1 + returns).prod() over the first k entries, NaN entries skipped
RECURSIVE prod_upto(_, _)
prod_upto(returns, k) ==
    IF k = 0 THEN One
    ELSE IF IsNaN(returns[k]) THEN prod_upto(returns, k - 1)
    ELSE RMul(prod_upto(returns, k - 1), RAdd(One, returns[k]))

\* (1 + returns).cumprod(): NaN where the return is NaN
cumprod(returns) ==
    [k \in 1..Len(returns) |->
        IF IsNaN(returns[k]) THEN NaN ELSE prod_upto(returns, k)]

\* Series.cummax() and Series.expanding().max()
cummax(s) == [k \in 1..Len(s) |-> series_max(SubSeq(s, 1, k))]

\* the drawdown of one bar: risk_metrics.py line 41, risk_manager.py line 160
drawdown_of(cumulative, highwater) ==
    float_div(float_sub(cumulative, highwater), highwater)

ratio_drawdown_of(cumulative, rolling_max) ==
    float_sub(float_div(cumulative, rolling_max), One)

\* calculate_risk_metrics, lines 20 and 38-42
metrics_max_drawdown(returns_in) ==
    LET returns == dropna(returns_in)
        cumulative == cumprod(returns)
        highwater == cummax(cumulative)
        drawdown == [k \in 1..Len(returns) |->
                        drawdown_of(cumulative[k], highwater[k])]
    IN  series_min(drawdown)

\* RiskManager._calculate_max_drawdown, lines 156-161
rm_max_drawdown(returns) ==
    LET cumulative_returns == cumprod(returns)
        rolling_max == cummax(cumulative_returns)
        drawdowns == [k \in 1..Len(returns) |->
                        ratio_drawdown_of(cumulative_returns[k], rolling_max[k])]
    IN  series_min(drawdowns)

\* calculate_risk_metrics, line 49: np.percentile of an empty array is NaN in
\* some numpy releases and an IndexError in others
metrics_outcomes(returns_in) ==
    IF dropna(returns_in) = <<>> THEN {"returned", "IndexError"}
    ELSE {"returned"}

DrawdownParked ==
    dd_call = [fn |-> "none", returns |-> <<>>, outcome |-> "none",
               max_drawdown |-> NaN]

DrawdownInit == DrawdownParked

\* calculate_risk_metrics(returns)
CalculateRiskMetrics ==
    /\ \E returns \in ReturnSeries :
          \E outcome \in metrics_outcomes(returns) :
             dd_call' = [fn |-> "calculate_risk_metrics", returns |-> returns,
                         outcome |-> outcome,
                         max_drawdown |-> IF outcome = "returned"
                                          THEN metrics_max_drawdown(returns)
                                          ELSE NaN]
    /\ UNCHANGED <<tradeVars, backtestVars, riskVars, loadVars, transformVars,
                   cryptoVars, monitorVars>>

\* RiskManager._calculate_max_drawdown(returns)
CalculateMaxDrawdown ==
    /\ \E returns \in ReturnSeries :
          dd_call' = [fn |-> "_calculate_max_drawdown", returns |-> returns,
                      outcome |-> "returned",
                      max_drawdown |-> rm_max_drawdown(returns)]
    /\ UNCHANGED <<tradeVars, backtestVars, riskVars, loadVars, transformVars,
                   cryptoVars, monitorVars>>

(***************************************************************************)
(* load_data (src/load.py).  A path is [dir, ext]: the directory part that *)
(* os.path.dirname yields and the extension of the file name; one frame is *)
(* written, so a file is described by the format it was written in.        *)
(***************************************************************************)
Dirs == {"", "out", "out/sub"}

Exts == {"csv", "json", "txt"}

Paths == [dir : Dirs, ext : Exts]

DestinationTypes == {"csv", "json", "parquet", "db", "CSV", "invalid_type"}

\* the destinations given to load_data: a path string, or a dictionary with
\* a 'type' and either a 'path' key, a 'params': {'path': ...} key or neither
Destinations ==
    [kind : {"str"}, path : Paths]
    \cup [kind : {"dict"}, type : DestinationTypes, path : {Some(p) : p \in Paths},
          params : {None}]
    \cup [kind : {"dict"}, type : DestinationTypes, path : {None},
          params : {None} \cup {Some(p) : p \in Paths}]

\* str.lower()
lower(t) == IF t = "CSV" THEN "csv" ELSE t

\* os.makedirs(d, exist_ok=True): d and its parents
makedirs(d) == IF d = "out/sub" THEN {"out", "out/sub"} ELSE {d}

\* load_to_csv / load_to_json / load_to_parquet, lines 32-79, called as
\* load_to_x(df, path): [dirs, files, outcome]
load_to_file(dirs, files, format, path) ==
    IF path.dir = ""
    THEN [dirs |-> dirs, files |-> files, outcome |-> "FileNotFoundError"]
    ELSE [dirs |-> dirs \cup makedirs(path.dir),
          files |-> [q \in DOMAIN files \cup {path} |->
                        IF q = path THEN format ELSE files[q]],
          outcome |-> "returned"]

\* the keyword arguments load_data passes on: destination.get('params', {})
passed_path(destination) == destination.params

\* load_data, lines 103-116, for a dictionary destination
load_data_dict(dirs, files, destination) ==
    LET dest_type == lower(destination.type)
        unchanged(outcome) == [dirs |-> dirs, files |-> files, outcome |-> outcome]
    IN  IF dest_type = "db"
        THEN unchanged("TypeError")     \* load_to_db without table_name, db_url
        ELSE IF dest_type \in {"csv", "json", "parquet"}
        THEN IF passed_path(destination) = None
             THEN unchanged("TypeError")    \* load_to_x(df) without path
             ELSE load_to_file(dirs, files, dest_type,
                               passed_path(destination)[1])
        ELSE unchanged("ValueError")

\* load_data, lines 92-101, for a string destination
load_data_str(dirs, files, destination) ==
    IF destination.path.ext \in {"csv", "json", "parquet"}
    THEN load_to_file(dirs, files, destination.path.ext, destination.path)
    ELSE [dirs |-> dirs, files |-> files, outcome |-> "ValueError"]

\* load_data, lines 82-119
load_data(dirs, files, destination) ==
    IF destination.kind = "str" THEN load_data_str(dirs, files, destination)
    ELSE load_data_dict(dirs, files, destination)

LoadParked ==
    /\ fs_dirs = {}
    /\ fs_files = <<>>
    /\ load_outcome = "none"

\* nothing written yet
LoadInit == LoadParked

\* the step a call load_data(df, destination) takes
LoadDataCall(destination) ==
    LET r == load_data(fs_dirs, fs_files, destination)
    IN  /\ fs_dirs' = r.dirs
        /\ fs_files' = r.files
        /\ load_outcome' = r.outcome

LoadData ==
    /\ \E destination \in Destinations : LoadDataCall(destination)
    /\ UNCHANGED <<tradeVars, backtestVars, riskVars, drawdownVars, transformVars,
                   cryptoVars, monitorVars>>

(***************************************************************************)
(* transform_data (src/transform.py).  The frame is described by the       *)
(* transformations that have been applied to the input frame, innermost    *)
(* first: <<"clean", "filter">> is filter_data(clean_data(df)).  An entry  *)
(* is [type, params_fit]; params_fit tells whether the function accepts    *)
(* the entry's 'params' on the frame or raises.                            *)
(***************************************************************************)
MaxTransforms == 3

SupportedTypes == {"clean", "aggregate", "filter", "dates", "normalize"}

EntryTypes == SupportedTypes \cup {"Filter", "", "pivot"}

Entries == [type : EntryTypes, params_fit : BOOLEAN]

TransformLists == UNION {[1..n -> Entries] : n \in 0..MaxTransforms}

\* line 161: transform.get('type', '').lower()
transform_type(transform) ==
    IF transform.type = "Filter" THEN "filter" ELSE transform.type

\* lines 163-172: df = clean_data(df, ...) etc.
applied_to_input(df, t) == <<t>>

applied(df, t) == Append(df, t)

TransformParked ==
    /\ tr_pc = "idle"
    /\ tr_err = "none"
    /\ tr_list = <<>>
    /\ tr_i = 0
    /\ tr_df = <<>>

TransformInit == TransformParked

\* the call transform_data(df, transformations)
TransformStart ==
    /\ tr_pc = "idle"
    /\ \E transformations \in TransformLists : tr_list' = transformations
    /\ tr_pc' = "running"
    /\ tr_err' = "none"
    /\ tr_i' = 0
    /\ tr_df' = <<>>
    /\ UNCHANGED <<tradeVars, backtestVars, riskVars, drawdownVars, loadVars,
                   cryptoVars, monitorVars>>

\* one pass of the loop, lines 160-172, the function returning
TransformApply ==
    /\ tr_pc = "running"
    /\ tr_i < Len(tr_list)
    /\ transform_type(tr_list[tr_i + 1]) \in SupportedTypes
    /\ tr_list[tr_i + 1].params_fit
    /\ tr_df' = applied(tr_df, transform_type(tr_list[tr_i + 1]))
    /\ tr_i' = tr_i + 1
    /\ UNCHANGED <<tr_pc, tr_err, tr_list>>
    /\ UNCHANGED <<tradeVars, backtestVars, riskVars, drawdownVars, loadVars,
                   cryptoVars, monitorVars>>

\* one pass of the loop, lines 160-172, the function raising on its params
TransformCalleeRaise ==
    /\ tr_pc = "running"
    /\ tr_i < Len(tr_list)
    /\ transform_type(tr_list[tr_i + 1]) \in SupportedTypes
    /\ ~tr_list[tr_i + 1].params_fit
    /\ tr_pc' = "raised"
    /\ tr_err' = "TypeError"
    /\ UNCHANGED <<tr_list, tr_i, tr_df>>
    /\ UNCHANGED <<tradeVars, backtestVars, riskVars, drawdownVars, loadVars,
                   cryptoVars, monitorVars>>

\* lines 173-174: raise ValueError
TransformUnsupported ==
    /\ tr_pc = "running"
    /\ tr_i < Len(tr_list)
    /\ transform_type(tr_list[tr_i + 1]) \notin SupportedTypes
    /\ tr_pc' = "raised"
    /\ tr_err' = "ValueError"
    /\ UNCHANGED <<tr_list, tr_i, tr_df>>
    /\ UNCHANGED <<tradeVars, backtestVars, riskVars, drawdownVars, loadVars,
                   cryptoVars, monitorVars>>

\* line 176: return df
TransformReturn ==
    /\ tr_pc = "running"
    /\ tr_i = Len(tr_list)
    /\ tr_pc' = "returned"
    /\ UNCHANGED <<tr_err, tr_list, tr_i, tr_df>>
    /\ UNCHANGED <<tradeVars, backtestVars, riskVars, drawdownVars, loadVars,
                   cryptoVars, monitorVars>>

(***************************************************************************)
(* get_crypto_price (src/crypto_api.py).  Each HTTP request is answered by *)
(* the network with one of Responses: a transport or status failure, a     *)
(* body that is not JSON, or a JSON body of one of the listed shapes.      *)
(***************************************************************************)
max_retries == 3

\* requests.get / raise_for_status raising a RequestException
RequestFailures == {"ConnectionError", "HTTPError"}

\* JSON bodies: data is None, a list, a dict without the id, a dict whose
\* entry for the id is a number, a dict without "usd", and the values of "usd"
JsonBodies == {"null", "list", "no_id", "id_number", "no_usd", "usd_string",
               "usd_null", "usd_zero", "usd_negative", "usd_positive", "usd_nan"}

Responses == RequestFailures \cup {"not_json"} \cup JsonBodies

\* response.json() on a body that is not JSON raises
\* requests.exceptions.JSONDecodeError, a RequestException and a ValueError,
\* from requests 2.27 on and a plain ValueError before
not_json_exceptions == {"RequestException", "ValueError"}

\* lines 38-46 and 53-54: how the try body ends on a JSON body
body_result(body) ==
    CASE body = "null"         -> [kind |-> "raised", value |-> "TypeError"]
      [] body = "list"         -> [kind |-> "raised", value |-> "CryptoAPIError"]
      [] body = "no_id"        -> [kind |-> "raised", value |-> "CryptoAPIError"]
      [] body = "id_number"    -> [kind |-> "raised", value |-> "TypeError"]
      [] body = "no_usd"       -> [kind |-> "raised", value |-> "CryptoAPIError"]
      [] body = "usd_string"   -> [kind |-> "raised", value |-> "CryptoAPIError"]
      [] body = "usd_null"     -> [kind |-> "raised", value |-> "CryptoAPIError"]
      [] body = "usd_zero"     -> [kind |-> "raised", value |-> "CryptoAPIError"]
      [] body = "usd_negative" -> [kind |-> "raised", value |-> "CryptoAPIError"]
      [] body = "usd_positive" -> [kind |-> "returned", value |-> "positive"]
      [] body = "usd_nan"      -> [kind |-> "returned", value |-> "nan"]

CryptoParked ==
    /\ gp_pc = "idle"
    /\ attempt = 0
    /\ responses = <<>>
    /\ gp_result = [kind |-> "none", value |-> "none"]

CryptoInit == CryptoParked

\* the call get_crypto_price(crypto_id): lines 23-26.  (Line 56, return None
\* after the loop, needs a pass with attempt = 2 that neither returns nor
\* raises; no pass below does, so no step leaves the loop that way.)
GetCryptoPrice ==
    /\ gp_pc = "idle"
    /\ gp_pc' = "running"
    /\ UNCHANGED <<attempt, responses, gp_result>>
    /\ UNCHANGED <<tradeVars, backtestVars, riskVars, drawdownVars, loadVars,
                   transformVars, monitorVars>>

\* the except clause of lines 48-51
request_exception(r) ==
    IF attempt = max_retries - 1
    THEN /\ gp_pc' = "raised"
         /\ gp_result' = [kind |-> "raised", value |-> "CryptoAPIError"]
         /\ UNCHANGED attempt
    ELSE /\ attempt' = attempt + 1       \* time.sleep(retry_delay), next pass
         /\ UNCHANGED <<gp_pc, gp_result>>

\* one pass of the loop whose request fails: lines 28-36, 48-51
RequestFails ==
    /\ gp_pc = "running"
    /\ attempt < max_retries
    /\ \E r \in RequestFailures :
          /\ responses' = Append(responses, r)
          /\ request_exception(r)
    /\ UNCHANGED <<tradeVars, backtestVars, riskVars, drawdownVars, loadVars,
                   transformVars, monitorVars>>

\* one pass of the loop whose response body is not JSON: lines 38, 48-54
RequestNotJson ==
    /\ gp_pc = "running"
    /\ attempt < max_retries
    /\ responses' = Append(responses, "not_json")
    /\ \E e \in not_json_exceptions :
          IF e = "RequestException" THEN request_exception("not_json")
          ELSE /\ gp_pc' = "raised"
               /\ gp_result' = [kind |-> "raised", value |-> "CryptoAPIError"]
               /\ UNCHANGED attempt
    /\ UNCHANGED <<tradeVars, backtestVars, riskVars, drawdownVars, loadVars,
                   transformVars, monitorVars>>

\* one pass of the loop whose response is a JSON body: lines 28-46, 53-54
RequestAnswered ==
    /\ gp_pc = "running"
    /\ attempt < max_retries
    /\ \E body \in JsonBodies :
          /\ responses' = Append(responses, body)
          /\ gp_result' = body_result(body)
          /\ gp_pc' = body_result(body).kind
    /\ UNCHANGED attempt
    /\ UNCHANGED <<tradeVars, backtestVars, riskVars, drawdownVars, loadVars,
                   transformVars, monitorVars>>

(***************************************************************************)
(* PriceMonitor (src/alerts.py).  datetime.now() is a clock that counts    *)
(* ticks and never goes back; a day is `day` ticks and at least one tick   *)
(* passes between two calls.  price_file is what save_price_history last   *)
(* wrote, which is what a restarted process loads.  `measured` is history: *)
(* the price of the latest log_price call, kept across restarts.           *)
(***************************************************************************)
MaxTime == 5

MaxGap == 3

\* timedelta(days=1), in ticks
day == 2

MonitorPrices == {100, 200, 201}

\* config.py, line 17: the default, in percent
PRICE_CHANGE_THRESHOLD == Rat(1, 2)

\* log_price, line 47: the entries that are kept
kept_all(log, day_ago) == log

kept(log, day_ago) == SelectSeq(log, LAMBDA e : e.t >= day_ago)

\* log_price, lines 43-47: self.price_log after the call at time t
logged(log, t, price) == kept(Append(log, [t |-> t, p |-> price]), t - day)

\* save_price_history, lines 30-40: the file after the call; a failed write is
\* logged and leaves the file as it was
saved(file, log, initial, written) ==
    IF written THEN Some([price_log |-> log, initial_price |-> initial])
    ELSE file

\* monitor_price, line 113
last_price_of(log, initial) ==
    IF Len(log) > 1 THEN Rat(log[Len(log) - 1].p, 1) ELSE Rat(initial[1], 1)

\* monitor_price, line 114
percentage_change(current_price, last_price) ==
    RMul(RDiv(RSub(current_price, last_price), last_price), Rat(100, 1))

\* monitor_price, line 117
significant(change) == RLe(PRICE_CHANGE_THRESHOLD, RAbs(change))

NoCall == [op |-> "none", price |-> 0, alert |-> FALSE, initial_known |-> FALSE,
           previous |-> None]

MonitorParked ==
    /\ now = 0
    /\ price_log = <<>>
    /\ initial_price = None
    /\ price_file = None
    /\ measured = None
    /\ mon_call = NoCall

\* PriceMonitor.__init__ without a price_history.json, lines 12-17
MonitorInit == MonitorParked

\* the process is started again: __init__ and load_price_history, lines 12-28
Restart ==
    /\ mon_call.op # "none"
    /\ IF price_file = None
       THEN price_log' = <<>> /\ initial_price' = None
       ELSE /\ price_log' = price_file[1].price_log
            /\ initial_price' = price_file[1].initial_price
    /\ mon_call' = NoCall
    /\ UNCHANGED <<now, price_file, measured>>
    /\ UNCHANGED <<tradeVars, backtestVars, riskVars, drawdownVars, loadVars, transformVars,
                   cryptoVars>>

\* a direct call log_price(price), lines 42-49, dt ticks after the last call
LogPrice ==
    /\ \E dt \in 1..MaxGap, price \in MonitorPrices, written \in BOOLEAN :
          /\ now + dt <= MaxTime
          /\ now' = now + dt
          /\ price_log' = logged(price_log, now + dt, price)
          /\ price_file' = saved(price_file, price_log', initial_price, written)
          /\ measured' = Some(price)
          /\ mon_call' = [op |-> "log_price", price |-> price, alert |-> FALSE,
                          initial_known |-> initial_price # None,
                          previous |-> measured]
    /\ UNCHANGED initial_price
    /\ UNCHANGED <<tradeVars, backtestVars, riskVars, drawdownVars, loadVars, transformVars,
                   cryptoVars>>

\* monitor_price, lines 92-121, get_crypto_price returning current_price
MonitorPrice ==
    /\ \E dt \in 1..MaxGap, current_price \in MonitorPrices, written \in BOOLEAN :
          /\ now + dt <= MaxTime
          /\ now' = now + dt
          /\ price_log' = logged(price_log, now + dt, current_price)
          /\ price_file' = saved(price_file, price_log', initial_price, written)
          /\ measured' = Some(current_price)
          /\ IF initial_price = None
             THEN /\ initial_price' = Some(current_price)
                  /\ mon_call' = [op |-> "monitor_price", price |-> current_price,
                                  alert |-> TRUE, initial_known |-> FALSE,
                                  previous |-> measured]
             ELSE /\ UNCHANGED initial_price
                  /\ mon_call' =
                        [op |-> "monitor_price", price |-> current_price,
                         alert |-> significant(percentage_change(
                                      Rat(current_price, 1),
                                      last_price_of(price_log', initial_price))),
                         initial_known |-> TRUE,
                         previous |-> measured]
    /\ UNCHANGED <<tradeVars, backtestVars, riskVars, drawdownVars, loadVars, transformVars,
                   cryptoVars>>

\* A monitor_price that would log a price of 0 when the fetch fails.
failed_fetch_logged(log, t) == logged(log, t, 0)

\* monitor_price, lines 93-94 and 123-124: self.price_log after a call at
\* time t in which get_crypto_price raises: line 94 is the first statement
\* of the try block and the handler only logs the error.
failed_fetch(log, t) == log

\* monitor_price, lines 93-94 and 123-124: get_crypto_price raises, the
\* exception is logged and the call returns
MonitorPriceFails ==
    /\ \E dt \in 1..MaxGap :
          /\ now + dt <= MaxTime
          /\ now' = now + dt
          /\ price_log' = failed_fetch(price_log, now + dt)
    /\ mon_call' = [op |-> "monitor_price_failed", price |-> 0, alert |-> FALSE,
                    initial_known |-> initial_price # None,
                    previous |-> measured]
    /\ UNCHANGED <<initial_price, price_file, measured>>
    /\ UNCHANGED <<tradeVars, backtestVars, riskVars, drawdownVars, loadVars, transformVars,
                   cryptoVars>>

(***************************************************************************)
(* trading BacktestEngine.run (src/trading/backtest_engine.py): the loop   *)
(* over the bars of a frame that enters a position on a signal and closes  *)
(* it at its stop-loss or take-profit level.  Bars are named by their      *)
(* position in the frame (the index get_ohlcv builds holds one timestamp   *)
(* per candle).  The fields size, pnl and return_pct, which no branch      *)
(* reads, are not part of the model.                                       *)
(***************************************************************************)
MaxEngineBars == 4

EnginePrices == {50, 100, 101, 110}

EngineCloses == UNION {[1..n -> EnginePrices] : n \in 0..MaxEngineBars}

\* get_stop_loss_take_profit, lines 86-88: the defaults run calls it with.
default_stop_loss_pct == Rat(1, 50)

default_take_profit_pct == Rat(1, 25)

\* Lines 103-104: the two levels of a row, whatever its signal.
get_stop_loss_take_profit(close) ==
    [stop_loss   |-> RMul(Rat(close, 1), RSub(One, default_stop_loss_pct)),
     take_profit |-> RMul(Rat(close, 1), RAdd(One, default_take_profit_pct))]

\* Lines 41-50: the frame the loop iterates over.
run_data(q, c) ==
    [k \in 1..Len(c) |->
        [close       |-> c[k],
         signal      |-> trading_generate_signals(q, c)[k],
         stop_loss   |-> get_stop_loss_take_profit(c[k]).stop_loss,
         take_profit |-> get_stop_loss_take_profit(c[k]).take_profit]]

\* Lines 63-71: the position entered on bar i.
entered(current_data, i) ==
    [side        |-> IF current_data.signal > 0 THEN "buy" ELSE "sell",
     entry_price |-> current_data.close,
     entry_time  |-> i,
     stop_loss   |-> current_data.stop_loss,
     take_profit |-> current_data.take_profit]

\* Lines 74-76 and 91-93: the exit condition of an open position.
exit_condition(p, close) ==
    IF p.side = "buy"
    THEN RLe(Rat(close, 1), p.stop_loss) \/ RLe(p.take_profit, Rat(close, 1))
    ELSE RLe(p.stop_loss, Rat(close, 1)) \/ RLe(Rat(close, 1), p.take_profit)

\* Lines 80-89 and 97-106: the trade recorded when the position is closed.
recorded(p, current_data, i) ==
    [entry_time  |-> p.entry_time,
     exit_time   |-> i,
     side        |-> p.side,
     entry_price |-> p.entry_price,
     exit_price  |-> current_data.close]

\* A loop that would look for an entry on the bar it closed a position on.
position_reentered(current_data, i) ==
    IF current_data.signal # 0 THEN Some(entered(current_data, i)) ELSE None

\* Lines 90 and 107: position = None.
position_after_exit(current_data, i) == None

TradingRunParked ==
    /\ tb_pc = "idle"
    /\ tb_data = <<>>
    /\ tb_i = 1
    /\ tb_position = None
    /\ tb_results = <<>>

\* BacktestEngine.__init__
TradingRunInit == TradingRunParked

\* Lines 41-54: run fetches the frame, has the strategy add its columns and
\* starts with no position and no result.
TradingRun ==
    /\ tb_pc = "idle"
    /\ \E c \in EngineCloses : tb_data' = run_data(tparams, c)
    /\ tb_pc' = "running"
    /\ tb_i' = 1
    /\ tb_position' = None
    /\ tb_results' = <<>>
    /\ UNCHANGED <<backtestVars, serviceVars, liveVars>>

\* Lines 60-71: a bar met without a position.
TradingRunFlat ==
    /\ tb_pc = "running"
    /\ tb_i <= Len(tb_data)
    /\ tb_position = None
    /\ tb_position' = IF tb_data[tb_i].signal # 0
                   THEN Some(entered(tb_data[tb_i], tb_i))
                   ELSE None
    /\ tb_i' = tb_i + 1
    /\ UNCHANGED <<tb_pc, tb_data, tb_results>>
    /\ UNCHANGED <<backtestVars, serviceVars, liveVars>>

\* Lines 72-107, exit condition met: the trade is recorded and the position
\* dropped.
TradingRunExit ==
    /\ tb_pc = "running"
    /\ tb_i <= Len(tb_data)
    /\ tb_position # None
    /\ exit_condition(tb_position[1], tb_data[tb_i].close)
    /\ tb_results' = Append(tb_results,
                            recorded(tb_position[1], tb_data[tb_i], tb_i))
    /\ tb_position' = position_after_exit(tb_data[tb_i], tb_i)
    /\ tb_i' = tb_i + 1
    /\ UNCHANGED <<tb_pc, tb_data>>
    /\ UNCHANGED <<backtestVars, serviceVars, liveVars>>

\* Lines 72-107, exit condition not met: the position is kept.
TradingRunHold ==
    /\ tb_pc = "running"
    /\ tb_i <= Len(tb_data)
    /\ tb_position # None
    /\ ~exit_condition(tb_position[1], tb_data[tb_i].close)
    /\ tb_i' = tb_i + 1
    /\ UNCHANGED <<tb_pc, tb_data, tb_position, tb_results>>
    /\ UNCHANGED <<backtestVars, serviceVars, liveVars>>

\* Lines 109-111: the loop is over, the results are returned.
TradingRunReturn ==
    /\ tb_pc = "running"
    /\ tb_i > Len(tb_data)
    /\ tb_pc' = "returned"
    /\ UNCHANGED <<tb_data, tb_i, tb_position, tb_results>>
    /\ UNCHANGED <<backtestVars, serviceVars, liveVars>>

(***************************************************************************)
(* LiveTrader (src/trading/live_trader.py): the loop of start, one         *)
(* iteration after the other, for the one symbol start was called with.    *)
(* The 'timestamp' and 'order_id' fields and the Telegram notifications    *)
(* (send_alert catches its own errors) are not part of the model.          *)
(***************************************************************************)
MaxLiveTrades == 2

LiveSymbol == "A"

LivePrices == {8, 9, 16}

LiveSizes == {2}

LiveSignals == {-1, 0, 1}

\* ml_prediction: None without a predictor, else the sign of the prediction.
LivePredictions == {None, Some(-1), Some(1)}

\* The risk manager the trader was built with: RiskManager of
\* src/risk/risk_manager.py, whose calculate_position_size takes
\* (portfolio_value, current_price, volatility), or a subclass whose
\* calculate_position_size takes the (capital, price) of line 143.
RiskManagers == {"RiskManager", "subclass"}

\* Lines 167-173: the trade logged for a buy.
buy_trade(symbol, price, position_size) ==
    [symbol |-> symbol, type |-> "buy", price |-> price, amount |-> position_size]

\* Lines 197-207: the trade logged for a sell.
sell_trade(symbol, position, price) ==
    [symbol |-> symbol, type |-> "sell", price |-> price,
     amount |-> position.size,
     pnl    |-> RDiv(RSub(price, position.entry_price), position.entry_price)]

\* A trader that would log the trade before it places the order.
logged_before_order(ps, ts, trade) == [positions |-> ps, trades |-> Append(ts, trade)]

\* Lines 143-154 and 184-194: what the trader has changed by the time it
\* calls create_order: nothing.
state_at_order(ps, ts, trade) == [positions |-> ps, trades |-> ts]

\* Lines 137-141: the entry branch is taken.
entry_wanted(ps, symbol, signal, ml_prediction) ==
    /\ symbol \notin DOMAIN ps
    /\ signal = 1
    /\ IF ml_prediction = None THEN TRUE ELSE ml_prediction[1] > 0

\* Lines 182-187: the exit branch is taken.
exit_wanted(ps, symbol, signal, ml_prediction) ==
    /\ symbol \in DOMAIN ps
    /\ signal = -1
    /\ IF ml_prediction = None THEN TRUE ELSE ml_prediction[1] < 0

\* Lines 234 and 269: the stop-loss or the take-profit is triggered.
stop_triggered(position, price) ==
    IF RLe(price, position.stop_loss) THEN TRUE
    ELSE RLe(position.take_profit, price)

LiveParked ==
    /\ lt_pc = "idle"
    /\ lt_risk_manager = "RiskManager"
    /\ lt_positions = <<>>
    /\ lt_trades = <<>>
    /\ lt_signal = 0
    /\ lt_price = 0
    /\ lt_ml = None
    /\ lt_error = "none"

\* LiveTrader.__init__, lines 29-49
LiveInit ==
    /\ lt_pc = "idle"
    /\ lt_risk_manager \in RiskManagers
    /\ lt_positions = <<>>
    /\ lt_trades = <<>>
    /\ lt_signal = 0
    /\ lt_price = 0
    /\ lt_ml = None
    /\ lt_error = "none"

\* start, lines 59-66: the loop is entered.
LiveStart ==
    /\ lt_pc = "idle"
    /\ lt_pc' = "fetch"
    /\ UNCHANGED <<lt_risk_manager, lt_positions, lt_trades, lt_signal,
                   lt_price, lt_ml, lt_error>>
    /\ UNCHANGED <<backtestVars, serviceVars, tradingRunVars>>

\* Lines 69-87: the candles are fetched, the latest signal and the prediction
\* are obtained.
LiveFetch ==
    /\ lt_pc = "fetch"
    /\ \E signal \in LiveSignals, price \in LivePrices, ml \in LivePredictions :
          /\ lt_signal' = signal
          /\ lt_price' = price
          /\ lt_ml' = ml
    /\ lt_pc' = "logic"
    /\ lt_error' = "none"
    /\ UNCHANGED <<lt_risk_manager, lt_positions, lt_trades>>
    /\ UNCHANGED <<backtestVars, serviceVars, tradingRunVars>>

\* Lines 69-87: get_ohlcv, the strategy or the predictor raises.
LiveFetchRaises ==
    /\ lt_pc = "fetch"
    /\ lt_pc' = "caught"
    /\ lt_error' = "fetch"
    /\ UNCHANGED <<lt_risk_manager, lt_positions, lt_trades, lt_signal,
                   lt_price, lt_ml>>
    /\ UNCHANGED <<backtestVars, serviceVars, tradingRunVars>>

\* _execute_trading_logic, lines 137-217, when neither branch places an order.
LiveNoOrder ==
    /\ lt_pc = "logic"
    /\ ~entry_wanted(lt_positions, LiveSymbol, lt_signal, lt_ml)
    /\ ~exit_wanted(lt_positions, LiveSymbol, lt_signal, lt_ml)
    /\ lt_pc' = "update"
    /\ UNCHANGED <<lt_risk_manager, lt_positions, lt_trades, lt_signal,
                   lt_price, lt_ml, lt_error>>
    /\ UNCHANGED <<backtestVars, serviceVars, tradingRunVars>>

\* Lines 143-146: calculate_position_size(capital=..., price=...) raises
\* TypeError on a RiskManager (it has no such parameters), and get_balance
\* may raise with any risk manager.
LiveSizeRaises ==
    /\ lt_pc = "logic"
    /\ entry_wanted(lt_positions, LiveSymbol, lt_signal, lt_ml)
    /\ lt_pc' = "caught"
    /\ lt_error' = "size"
    /\ UNCHANGED <<lt_risk_manager, lt_positions, lt_trades, lt_signal,
                   lt_price, lt_ml>>
    /\ UNCHANGED <<backtestVars, serviceVars, tradingRunVars>>

\* Lines 143-180: the buy order is placed, the position and the trade are
\* recorded.
LiveOpen ==
    /\ lt_pc = "logic"
    /\ entry_wanted(lt_positions, LiveSymbol, lt_signal, lt_ml)
    /\ lt_risk_manager = "subclass"
    /\ Len(lt_trades) < MaxLiveTrades
    /\ \E z \in LiveSizes :
          /\ lt_positions' = [s \in DOMAIN lt_positions \cup {LiveSymbol} |->
                                live_position(Rat(lt_price, 1), Rat(z, 1))]
          /\ lt_trades' = Append(lt_trades,
                                 buy_trade(LiveSymbol, Rat(lt_price, 1), Rat(z, 1)))
    /\ lt_pc' = "update"
    /\ UNCHANGED <<lt_risk_manager, lt_signal, lt_price, lt_ml, lt_error>>
    /\ UNCHANGED <<backtestVars, serviceVars, tradingRunVars>>

\* Lines 149-154: create_order raises for the buy order.
LiveOpenOrderRaises ==
    /\ lt_pc = "logic"
    /\ entry_wanted(lt_positions, LiveSymbol, lt_signal, lt_ml)
    /\ lt_risk_manager = "subclass"
    /\ \E z \in LiveSizes :
          LET at == state_at_order(lt_positions, lt_trades,
                        buy_trade(LiveSymbol, Rat(lt_price, 1), Rat(z, 1)))
          IN  /\ lt_positions' = at.positions
              /\ lt_trades' = at.trades
    /\ lt_pc' = "caught"
    /\ lt_error' = "create_order"
    /\ UNCHANGED <<lt_risk_manager, lt_signal, lt_price, lt_ml>>
    /\ UNCHANGED <<backtestVars, serviceVars, tradingRunVars>>

\* Lines 184-217: the sell order is placed, the trade is recorded and the
\* position removed.
LiveClose ==
    /\ lt_pc = "logic"
    /\ exit_wanted(lt_positions, LiveSymbol, lt_signal, lt_ml)
    /\ Len(lt_trades) < MaxLiveTrades
    /\ lt_trades' = Append(lt_trades,
                           sell_trade(LiveSymbol, lt_positions[LiveSymbol],
                                      Rat(lt_price, 1)))
    /\ lt_positions' = [s \in DOMAIN lt_positions \ {LiveSymbol} |->
                          lt_positions[s]]
    /\ lt_pc' = "update"
    /\ UNCHANGED <<lt_risk_manager, lt_signal, lt_price, lt_ml, lt_error>>
    /\ UNCHANGED <<backtestVars, serviceVars, tradingRunVars>>

\* Lines 189-194: create_order raises for the sell order.
LiveCloseOrderRaises ==
    /\ lt_pc = "logic"
    /\ exit_wanted(lt_positions, LiveSymbol, lt_signal, lt_ml)
    /\ LET at == state_at_order(lt_positions, lt_trades,
                     sell_trade(LiveSymbol, lt_positions[LiveSymbol],
                                Rat(lt_price, 1)))
       IN  /\ lt_positions' = at.positions
           /\ lt_trades' = at.trades
    /\ lt_pc' = "caught"
    /\ lt_error' = "create_order"
    /\ UNCHANGED <<lt_risk_manager, lt_signal, lt_price, lt_ml>>
    /\ UNCHANGED <<backtestVars, serviceVars, tradingRunVars>>

\* _update_positions, lines 227-228 and 303-308: no position, or neither
\* level triggered and the trailing stop raised.
LiveUpdatePositions ==
    /\ lt_pc = "update"
    /\ LiveSymbol \in DOMAIN lt_positions
       => ~stop_triggered(lt_positions[LiveSymbol], Rat(lt_price, 1))
    /\ lt_positions' =
          [s \in DOMAIN lt_positions |->
              [lt_positions[s] EXCEPT !.trailing_stop =
                  live_trailing_stop(lt_positions[s], Rat(lt_price, 1))]]
    /\ lt_pc' = "sleep"
    /\ UNCHANGED <<lt_risk_manager, lt_trades, lt_signal, lt_price, lt_ml,
                   lt_error>>
    /\ UNCHANGED <<backtestVars, serviceVars, tradingRunVars>>

\* _update_positions, lines 234-245 and 269-280: the stop-loss or the
\* take-profit is triggered and create_order(symbol=, type=, side=, amount=)
\* raises TypeError: CryptoExchange.create_order has no parameter 'type'.
LiveStopOrderRaises ==
    /\ lt_pc = "update"
    /\ LiveSymbol \in DOMAIN lt_positions
    /\ stop_triggered(lt_positions[LiveSymbol], Rat(lt_price, 1))
    /\ LET at == state_at_order(lt_positions, lt_trades,
                     sell_trade(LiveSymbol, lt_positions[LiveSymbol],
                                Rat(lt_price, 1)))
       IN  /\ lt_positions' = at.positions
           /\ lt_trades' = at.trades
    /\ lt_pc' = "caught"
    /\ lt_error' = "create_order"
    /\ UNCHANGED <<lt_risk_manager, lt_signal, lt_price, lt_ml>>
    /\ UNCHANGED <<backtestVars, serviceVars, tradingRunVars>>

\* Lines 100-106: the iteration ends and the loop waits for the next candle.
LiveSleep ==
    /\ lt_pc = "sleep"
    /\ lt_pc' = "fetch"
    /\ lt_signal' = 0
    /\ lt_price' = 0
    /\ lt_ml' = None
    /\ UNCHANGED <<lt_risk_manager, lt_positions, lt_trades, lt_error>>
    /\ UNCHANGED <<backtestVars, serviceVars, tradingRunVars>>

\* Lines 108-112: the exception is logged and the loop waits for the next
\* candle.
LiveCaught ==
    /\ lt_pc = "caught"
    /\ lt_pc' = "fetch"
    /\ lt_signal' = 0
    /\ lt_price' = 0
    /\ lt_ml' = None
    /\ UNCHANGED <<lt_risk_manager, lt_positions, lt_trades, lt_error>>
    /\ UNCHANGED <<backtestVars, serviceVars, tradingRunVars>>

TradeParked == TradingRunParked /\ LiveParked

ServiceParked ==
    /\ RiskParked /\ DrawdownParked /\ LoadParked
    /\ TransformParked /\ CryptoParked /\ MonitorParked

BacktestParked == EngineInit /\ StratInit /\ RunnerParked /\ TradingParked

EngineParked == EngineInit

Init == EngineInit /\ StratInit /\ RunnerParked /\ TradingParked /\ ServiceParked /\ TradeParked

Next ==
    \/ RunStart
    \/ ProcessBar
    \/ ProcessBarRaise
    \/ RunReturn
    \/ RunRaise

Spec == Init /\ [][Next]_vars

StrategyInit == EngineParked /\ StratInit /\ RunnerParked /\ TradingParked /\ ServiceParked /\ TradeParked

StrategyNext ==
    \/ GenerateSignals
    \/ CalculateReturns
    \/ CalculateMetrics
    \/ GetPositions

StrategySpec == StrategyInit /\ [][StrategyNext]_vars

RunnerSpecInit == EngineParked /\ StratInit /\ RunnerInit /\ TradingParked /\ ServiceParked /\ TradeParked

RunnerNext ==
    \/ RunnerStart
    \/ RunnerBody
    \/ RunnerNextStrategy
    \/ RunnerReturn

RunnerSpec == RunnerSpecInit /\ [][RunnerNext]_vars

SignalInit == EngineParked /\ StratInit /\ RunnerParked /\ TradingInit /\ ServiceParked /\ TradeParked

SignalNext == TradingGenerateSignals

SignalSpec == SignalInit /\ [][SignalNext]_vars

RiskSpecInit ==
    /\ BacktestParked /\ TradeParked
    /\ RiskInit /\ DrawdownParked /\ LoadParked
    /\ TransformParked /\ CryptoParked /\ MonitorParked

RiskNext ==
    \/ UpdatePosition
    \/ ClosePosition

RiskSpec == RiskSpecInit /\ [][RiskNext]_vars

DrawdownSpecInit ==
    /\ BacktestParked /\ TradeParked
    /\ RiskParked /\ DrawdownInit /\ LoadParked
    /\ TransformParked /\ CryptoParked /\ MonitorParked

DrawdownNext ==
    \/ CalculateRiskMetrics
    \/ CalculateMaxDrawdown

DrawdownSpec == DrawdownSpecInit /\ [][DrawdownNext]_vars

LoadSpecInit ==
    /\ BacktestParked /\ TradeParked
    /\ RiskParked /\ DrawdownParked /\ LoadInit
    /\ TransformParked /\ CryptoParked /\ MonitorParked

LoadNext == LoadData

LoadSpec == LoadSpecInit /\ [][LoadNext]_vars

TransformSpecInit ==
    /\ BacktestParked /\ TradeParked
    /\ RiskParked /\ DrawdownParked /\ LoadParked
    /\ TransformInit /\ CryptoParked /\ MonitorParked

TransformNext ==
    \/ TransformStart
    \/ TransformApply
    \/ TransformCalleeRaise
    \/ TransformUnsupported
    \/ TransformReturn

TransformSpec == TransformSpecInit /\ [][TransformNext]_vars

CryptoSpecInit ==
    /\ BacktestParked /\ TradeParked
    /\ RiskParked /\ DrawdownParked /\ LoadParked
    /\ TransformParked /\ CryptoInit /\ MonitorParked

CryptoNext ==
    \/ GetCryptoPrice
    \/ RequestFails
    \/ RequestNotJson
    \/ RequestAnswered

CryptoSpec == CryptoSpecInit /\ [][CryptoNext]_vars

MonitorSpecInit ==
    /\ BacktestParked /\ TradeParked
    /\ RiskParked /\ DrawdownParked /\ LoadParked
    /\ TransformParked /\ CryptoParked /\ MonitorInit

MonitorNext ==
    \/ Restart
    \/ LogPrice
    \/ MonitorPrice
    \/ MonitorPriceFails

MonitorSpec == MonitorSpecInit /\ [][MonitorNext]_vars

TradingRunSpecInit ==
    /\ EngineParked /\ StratInit /\ RunnerParked /\ TradingInit
    /\ ServiceParked /\ TradingRunInit /\ LiveParked

TradingRunNext ==
    \/ TradingRun
    \/ TradingRunFlat
    \/ TradingRunExit
    \/ TradingRunHold
    \/ TradingRunReturn

TradingRunSpec == TradingRunSpecInit /\ [][TradingRunNext]_vars

LiveSpecInit ==
    /\ BacktestParked /\ ServiceParked /\ TradingRunParked /\ LiveInit

LiveNext ==
    \/ LiveStart
    \/ LiveFetch
    \/ LiveFetchRaises
    \/ LiveNoOrder
    \/ LiveSizeRaises
    \/ LiveOpen
    \/ LiveOpenOrderRaises
    \/ LiveClose
    \/ LiveCloseOrderRaises
    \/ LiveUpdatePositions
    \/ LiveStopOrderRaises
    \/ LiveSleep
    \/ LiveCaught

LiveSpec == LiveSpecInit /\ [][LiveNext]_vars







(***************************************************************************)
(* Claims about BacktestEngine, checked under Spec.                        *)
(***************************************************************************)

\* The value of the open positions of the symbols in S at the given close.
RECURSIVE OpenValue(_, _)
OpenValue(S, close) ==
    IF S = {} THEN Zero
    ELSE LET s == CHOOSE x \in S : TRUE
         IN  RAdd(IF s \in DOMAIN positions
                  THEN RMul(positions[s].size, Rat(close, 1)) ELSE Zero,
                  OpenValue(S \ {s}, close))

\* C1: after every processed bar, portfolio equity is cash plus the sum over
\* the open positions of size times that bar's close, and this value is the
\* entry of the equity curve for the bar.
C1_EquityIsCashPlusOpenValue ==
    bar >= 1 =>
        /\ equity = RAdd(cash, OpenValue(Symbols, data[bar]))
        /\ Len(equity_curve) = bar
        /\ equity_curve[bar] = equity

\* A bar was processed with two positions open whose value at the close
\* differs from what was paid for them.
C1_Witness ==
    /\ bar >= 1
    /\ DOMAIN positions = Symbols
    /\ \E s \in Symbols : positions[s].entry_price # Rat(data[bar], 1)
    /\ equity # cash

\* C2 (as claimed): every run that has processed its n >= 1 bars ends by
\* returning results whose equity curve has n entries, one per bar, and
\* whose trades are the trades of this run.
C2_RunReturnsOneEntryPerBar ==
    (epc \in {"returned", "raised"} /\ Len(data) >= 1 /\ bar = Len(data)) =>
        /\ epc = "returned"
        /\ results.kind = "results"
        /\ Len(results.equity_curve) = Len(data)
        /\ results.equity_curve = equity_curve
        /\ results.trades = trades
        /\ \A k \in 1..Len(trades) : trades[k].time \in 1..Len(data)

RECURSIVE NetCashFlow(_)
NetCashFlow(ts) ==
    IF ts = <<>> THEN Zero
    ELSE LET t     == Head(ts)
             gross == RMul(t.size, t.price)
         IN  RAdd(IF t.type = "buy" THEN RNeg(RAdd(gross, t.commission))
                                   ELSE RSub(gross, t.commission),
                  NetCashFlow(Tail(ts)))

C4_SlippageAgainstTrader ==
    \A k \in 1..Len(trades) :
        LET close == Rat(data[trades[k].time], 1)
        IN  IF trades[k].type = "buy"
            THEN /\ trades[k].price = RMul(close, RAdd(One, slippage))
                 /\ RLe(close, trades[k].price)
            ELSE /\ trades[k].price = RMul(close, RSub(One, slippage))
                 /\ RLe(trades[k].price, close)

\* A buy and a later sell have both been executed, each away from the close.
C4_Witness ==
    \E j, k \in 1..Len(trades) :
        /\ j < k
        /\ trades[j].type = "buy"
        /\ trades[k].type = "sell"
        /\ RLt(Rat(data[trades[j].time], 1), trades[j].price)
        /\ RLt(trades[k].price, Rat(data[trades[k].time], 1))

\* portfolio['equity'] as _execute_trades reads it on bar t: the equity left
\* by the bar before, the initial capital on the first bar.
SizingEquity(t) == IF t = 1 THEN initial_capital ELSE equity_curve[t - 1]

EntryPriceOf(ts, k) ==
    LET j == CHOOSE j \in 1..(k - 1) :
                /\ ts[j].type = "buy"
                /\ ts[j].symbol = ts[k].symbol
                /\ \A m \in (j + 1)..(k - 1) :
                      ~(ts[m].type = "buy" /\ ts[m].symbol = ts[k].symbol)
    IN  ts[j].price

Closed(ts)  == {k \in 1..Len(ts) : ts[k].type = "sell"}
Winning(ts) == {k \in Closed(ts) : RLt(EntryPriceOf(ts, k), ts[k].price)}

ResultKeys == {"metrics", "returns", "equity_curve", "signals"}

\* Every frame the data fetcher handed to the run had its close column.
FetchedWellFormed == rdata = None \/ rdata[1].has_close

\* C7 (as claimed): run(), given well-formed data, ends by returning, and the
\* results it returns hold, for every strategy and every symbol, an entry
\* with metrics, returns, equity_curve and signals.
C7_RunnerReturnsEveryEntry ==
    (rpc \in {"returned", "raised"} /\ FetchedWellFormed) =>
        /\ rpc = "returned"
        /\ \A k \in 1..Len(rstrategies), y \in 1..Len(rsymbols) :
              /\ rstrategies[k] \in DOMAIN rresults
              /\ rsymbols[y] \in DOMAIN rresults[rstrategies[k]]
              /\ DOMAIN rresults[rstrategies[k]][rsymbols[y]] = ResultKeys

(***************************************************************************)
(* Claims about BaseStrategy, checked under StrategySpec.                  *)
(***************************************************************************)

\* C8 (as claimed): calculate_metrics raises ValueError, changing no state,
\* exactly when calculate_returns has never been called on the instance.
C8_ValueErrorIffNeverCalled ==
    [][CalculateMetrics =>
         /\ (call'.outcome = "ValueError") <=> ("calculate_returns" \notin invoked)
         /\ (call'.outcome = "ValueError") => (strat' = strat)]_vars

\* C8 (amended): calculate_metrics raises ValueError, changing no state,
\* exactly when no call of calculate_returns on the instance has returned.
C8_ValueErrorIffNeverCompleted ==
    [][CalculateMetrics =>
         /\ (call'.outcome = "ValueError") <=> ("calculate_returns" \notin completed)
         /\ (call'.outcome = "ValueError") => (strat' = strat)]_vars

\* calculate_metrics has raised ValueError on an instance whose only calls
\* of calculate_returns raised.
C8_Witness ==
    /\ call = [op |-> "calculate_metrics", outcome |-> "ValueError"]
    /\ "calculate_returns" \in invoked \ completed

\* C9 (as claimed): get_positions raises ValueError before generate_signals
\* has generated signals on the instance, and from then on succeeds and
\* returns a copy of the generated signal column.
C9_GetPositionsAfterGenerateSignals ==
    call.op = "get_positions" =>
        IF "generate_signals" \in completed
        THEN /\ call.outcome = "ok"
             /\ strat.signals # None
             /\ strat.positions = Some(strat.signals[1].signal)
        ELSE call.outcome = "ValueError"

(***************************************************************************)
(* Claims about the trading MovingAverageCrossover, checked under          *)
(* SignalSpec.                                                             *)
(***************************************************************************)

\* The moving average of window w at row k, as a fraction.
MovingAverage(c, k, w) == Rat(SumRange(c, k - w + 1, k), w)

\* C10: generate_signals gives every bar one signal in {1, 0, -1}: 0 where
\* the short or the long moving average is not yet defined, 0 where the
\* absolute close-to-close change is below signal_threshold, otherwise 1 if
\* short MA > long MA, -1 if short MA < long MA, 0 if they are equal.
C10_SignalPerBar ==
    tsignal # None =>
        /\ DOMAIN tsignal[1] = 1..Len(tdata)
        /\ \A k \in 1..Len(tdata) :
              LET sig       == tsignal[1][k]
                  sw        == tparams.short_window
                  lw        == tparams.long_window
                  undefined == k < sw \/ k < lw
                  small     == /\ k >= 2
                               /\ RLt(RAbs(RDiv(Rat(tdata[k] - tdata[k - 1], 1),
                                                Rat(tdata[k - 1], 1))),
                                      tparams.signal_threshold)
              IN  /\ sig \in {1, 0, -1}
                  /\ undefined => sig = 0
                  /\ small => sig = 0
                  /\ (~undefined /\ ~small) =>
                        LET short == MovingAverage(tdata, k, sw)
                            long  == MovingAverage(tdata, k, lw)
                        IN  sig = IF RLt(long, short) THEN 1
                                  ELSE IF RLt(short, long) THEN -1
                                  ELSE 0

\* Signals were generated for a frame that has a bar of each kind: a buy, a
\* sell, a bar silenced by the threshold while the averages differ, and a
\* bar whose change equals the threshold.
C10_Witness ==
    /\ tsignal # None
    /\ \E k \in 1..Len(tdata) : tsignal[1][k] = 1
    /\ \E k \in 1..Len(tdata) : tsignal[1][k] = -1
    /\ \E k \in 2..Len(tdata) :
          /\ tsignal[1][k] = 0
          /\ MeanLt(tdata, k, tparams.short_window, tparams.long_window)
    /\ \E k \in 2..Len(tdata) :
          RAbs(PctChange(tdata, k)) = tparams.signal_threshold

(***************************************************************************)
(* trading RiskManager claims, checked under RiskSpec.                     *)
(***************************************************************************)
InFavour(position, new_stop) ==
    IF position.side = "buy" THEN RLe(position.trailing_stop, new_stop)
    ELSE RLe(new_stop, position.trailing_stop)

\* the positions LiveTrader can hold: opened at a price, stop possibly raised
LivePositions ==
    {[live_position(Rat(e, 1), Rat(z, 1)) EXCEPT !.trailing_stop = t] :
        e \in RiskPrices, z \in RiskSizes,
        t \in {RMul(Rat(q, 1), RSub(One, trailing_stop_pct)) : q \in RiskPrices}}

\* C11: over any sequence of price updates the trailing stop of an open
\* position moves only in the position's favour: for a position opened as a
\* buy it never decreases, for one opened as a sell it never increases
\* (RiskManager.update_position), and LiveTrader._update_positions never
\* lowers the stop of the long position it holds.
C11_TrailingStopOnlyInFavour ==
    /\ [][\A s \in DOMAIN rm_positions \cap DOMAIN rm_positions' :
             InFavour(rm_positions[s], rm_positions'[s].trailing_stop)]_vars
    /\ [](\A position \in LivePositions, price \in RiskPrices :
             RLe(position.trailing_stop,
                 live_trailing_stop(position, Rat(price, 1))))

RECURSIVE SumPnl(_)
SumPnl(history) ==
    IF history = <<>> THEN Zero
    ELSE RAdd(SumPnl(SubSeq(history, 1, Len(history) - 1)),
              history[Len(history)].pnl)

\* C12: after any sequence of update_position and close_position calls
\* current_capital = initial_capital + the sum of the pnl of the entries of
\* trade_history, and a close_position call for a symbol that has a position
\* removes exactly that symbol's position and appends exactly one trade.
C12_CapitalIsInitialPlusPnl ==
    /\ [](current_capital = RAdd(rm_initial_capital, SumPnl(trade_history)))
    /\ [][\A symbol \in Symbols, price \in RiskPrices :
             (symbol \in DOMAIN rm_positions /\ ClosePositionCall(symbol, price))
             => /\ DOMAIN rm_positions' = DOMAIN rm_positions \ {symbol}
                /\ \A s \in DOMAIN rm_positions' :
                      rm_positions'[s] = rm_positions[s]
                /\ Len(trade_history') = Len(trade_history) + 1
                /\ SubSeq(trade_history', 1, Len(trade_history)) = trade_history
                /\ trade_history'[Len(trade_history')].symbol = symbol]_vars

\* two closed trades, a long and a short one, both with a profit, and a
\* position of the other symbol still open
C12_Witness ==
    /\ Len(trade_history) = 2
    /\ RLt(Zero, trade_history[1].pnl)
    /\ RLt(Zero, trade_history[2].pnl)
    /\ trade_history[1].side # trade_history[2].side
    /\ current_capital # rm_initial_capital
    /\ rm_positions # <<>>
    /\ rm_ret = trade_history[2]

\* the decision the claim states, on the side the position was opened with
DecisionOnOpeningSide(position, price) ==
    IF position.side = "buy"
    THEN IF RLe(price, position.stop_loss) \/ RLe(price, position.trailing_stop)
         THEN [action |-> "close", reason |-> "stop_loss"]
         ELSE IF RLe(position.take_profit, price)
         THEN [action |-> "close", reason |-> "take_profit"]
         ELSE [action |-> "hold"]
    ELSE IF RLe(position.stop_loss, price) \/ RLe(position.trailing_stop, price)
         THEN [action |-> "close", reason |-> "stop_loss"]
         ELSE IF RLe(price, position.take_profit)
         THEN [action |-> "close", reason |-> "take_profit"]
         ELSE [action |-> "hold"]

\* C13: for a symbol that already has a position update_position returns
\* close/stop_loss when the price has reached the stop-loss or the trailing
\* stop, otherwise close/take_profit when it has reached the take-profit,
\* otherwise hold, where "reached" is read on the side the position was
\* opened with.
C13_ExitDecisionOnOpeningSide ==
    [][\A symbol \in Symbols, price \in RiskPrices,
          position_size \in RiskSizes, side \in Sides :
          (/\ symbol \in DOMAIN rm_positions
           /\ UpdatePositionCall(symbol, price, position_size, side))
          => rm_ret' = DecisionOnOpeningSide(rm_positions'[symbol],
                                             Rat(price, 1))]_vars

\* C14: close_position for a symbol without an open position returns
\* {'error': 'Position not found'} and leaves current_capital, positions and
\* trade_history as they were.
C14_CloseMissingChangesNothing ==
    [][\A symbol \in Symbols, price \in RiskPrices :
          (symbol \notin DOMAIN rm_positions /\ ClosePositionCall(symbol, price))
          => /\ rm_ret' = PositionNotFound
             /\ UNCHANGED <<current_capital, rm_positions, trade_history>>]_vars

\* the error came back while a position of the other symbol was open and a
\* trade had been booked
C14_Witness ==
    /\ rm_ret = PositionNotFound
    /\ rm_positions # <<>>
    /\ DOMAIN rm_positions # Symbols
    /\ trade_history # <<>>
    /\ current_capital # rm_initial_capital

(***************************************************************************)
(* max_drawdown claim, checked under DrawdownSpec.                         *)
(***************************************************************************)
\* the cumulative product of (1 + return) over the observed returns
Cumulative(r) == [k \in 1..Len(r) |-> prod_upto(r, k)]

\* the cumulative product never falls below its running maximum
NeverFalls(r) ==
    \A j, k \in 1..Len(r) : j <= k => RLe(Cumulative(r)[j], Cumulative(r)[k])

\* the relative falls from an earlier (positive) value of the product
RelativeFalls(r) ==
    {RDiv(RSub(Cumulative(r)[j], Cumulative(r)[k]), Cumulative(r)[j]) :
        <<j, k>> \in {jk \in (1..Len(r)) \X (1..Len(r)) :
                        jk[1] <= jk[2] /\ RLt(Zero, Cumulative(r)[jk[1]])}}

LargestFall(r) ==
    IF RelativeFalls(r) = {} THEN Zero
    ELSE CHOOSE f \in RelativeFalls(r) : \A g \in RelativeFalls(r) : RLe(g, f)

\* C15: the max_drawdown computed from a returns series is never positive,
\* is minus the largest relative fall of the cumulative product of
\* (1 + return) below its running maximum, and is 0 exactly when that
\* product never falls below its running maximum.
C15_MaxDrawdownIsLargestFall ==
    dd_call.outcome = "returned"
    => LET r == dropna(dd_call.returns)
       IN  /\ ~IsNaN(dd_call.max_drawdown)
           /\ RLe(dd_call.max_drawdown, Zero)
           /\ dd_call.max_drawdown = RNeg(LargestFall(r))
           /\ (dd_call.max_drawdown = Zero <=> NeverFalls(r))

(***************************************************************************)
(* load_data claim, checked under LoadSpec.                                *)
(***************************************************************************)
\* C16: load_data with a dictionary destination {'type': t, 'path': p}, t
\* being csv, json or parquet, writes the frame to the file at p and creates
\* p's directory when it does not exist; with any other type it raises
\* ValueError and writes nothing.
C16_DictDestinationWritesToPath ==
    [][\A t \in DestinationTypes, p \in {q \in Paths : q.dir # ""} :
          LoadDataCall([kind |-> "dict", type |-> t, path |-> Some(p),
                        params |-> None])
          => IF t \in {"csv", "json", "parquet"}
             THEN /\ load_outcome' = "returned"
                  /\ p \in DOMAIN fs_files'
                  /\ fs_files'[p] = t
                  /\ p.dir \in fs_dirs'
             ELSE /\ load_outcome' = "ValueError"
                  /\ UNCHANGED <<fs_dirs, fs_files>>]_vars

(***************************************************************************)
(* transform_data claim, checked under TransformSpec.  The type of an      *)
(* entry is its 'type' value as transform_data compares it (lower-cased,   *)
(* '' when the key is missing).                                            *)
(***************************************************************************)
TypesOf(list) == [k \in 1..Len(list) |-> transform_type(list[k])]

Unsupported(list) == {k \in 1..Len(list) : TypesOf(list)[k] \notin SupportedTypes}

C18_PriceOrCryptoAPIError ==
    /\ Len(responses) <= 3
    /\ \A k \in 1..(Len(responses) - 1) :
          responses[k] \in RequestFailures \cup {"not_json"}
    /\ gp_pc = "running" => (attempt < max_retries /\ ENABLED CryptoNext)
    /\ gp_pc = "returned" => gp_result.value = "positive"
    /\ gp_pc = "raised" => gp_result.value = "CryptoAPIError"

(***************************************************************************)
(* PriceMonitor claims, checked under MonitorSpec.                         *)
(***************************************************************************)
\* the last transition ran log_price (directly or inside monitor_price)
JustLogged == mon_call.op \in {"log_price", "monitor_price"}

\* C19: after every log_price call price_log holds only entries recorded
\* within the 24 hours before the call, in chronological order, and its last
\* entry is the price just logged (with the time of the call).
C19_LogHoldsLastDayInOrder ==
    JustLogged
    => /\ price_log # <<>>
       /\ price_log[Len(price_log)] = [t |-> now, p |-> mon_call.price]
       /\ \A k \in 1..Len(price_log) :
             now - day <= price_log[k].t /\ price_log[k].t <= now
       /\ \A j, k \in 1..Len(price_log) :
             j < k => price_log[j].t <= price_log[k].t

\* a log_price call that dropped an entry older than a day and kept a newer one
C19_Witness ==
    /\ JustLogged
    /\ Len(price_log) = 2
    /\ price_log[1].t = now - day
    /\ price_file # None
    /\ Len(price_file[1].price_log) = 3
    /\ price_file[1].price_log[1].t < now - day

\* C20: once an initial price is known, a monitor_price call that obtains
\* the current price generates an alert exactly when the absolute percentage
\* change of the current price relative to the last previous measurement is
\* at least PRICE_CHANGE_THRESHOLD.
C20_AlertIffChangeFromLastMeasurement ==
    (mon_call.op = "monitor_price" /\ mon_call.initial_known)
    => /\ mon_call.previous # None
       /\ mon_call.alert
          <=> significant(percentage_change(Rat(mon_call.price, 1),
                                            Rat(mon_call.previous[1], 1)))

(***************************************************************************)
(* Claims about the trading BacktestEngine, checked under TradingRunSpec.  *)
(***************************************************************************)

\* The bar on which the last recorded trade was closed; 0 when there is none.
LastExit == IF tb_results = <<>> THEN 0 ELSE tb_results[Len(tb_results)].exit_time

\* C21: run holds at most one open position at any bar: a position is
\* entered only on a bar with a non-zero signal while flat (after the exit of
\* every recorded trade), every recorded trade has its exit bar strictly
\* after its entry bar, and the entry of each recorded trade lies strictly
\* after the exit of the previous one.
C21_OnePositionInBarOrder ==
    /\ \A k \in 1..Len(tb_results) :
          /\ tb_results[k].entry_time \in 1..Len(tb_data)
          /\ tb_data[tb_results[k].entry_time].signal # 0
          /\ tb_results[k].entry_time < tb_results[k].exit_time
          /\ tb_results[k].exit_time < tb_i
          /\ k > 1 => tb_results[k - 1].exit_time < tb_results[k].entry_time
    /\ tb_position # None
       => /\ tb_position[1].entry_time \in 1..Len(tb_data)
          /\ tb_data[tb_position[1].entry_time].signal # 0
          /\ LastExit < tb_position[1].entry_time
          /\ tb_position[1].entry_time < tb_i

C21_Witness ==
    /\ tb_pc = "returned"
    /\ Len(tb_results) = 1
    /\ tb_position # None
    /\ tb_position[1].entry_time = tb_results[1].exit_time + 1
    /\ tb_data[tb_results[1].exit_time].signal # 0

\* The stop-loss lies on the losing side of the entry price and the
\* take-profit on the winning side.
LevelsOnTheirSides(side, entry_price, stop_loss, take_profit) ==
    IF side = "buy"
    THEN RLt(stop_loss, Rat(entry_price, 1))
         /\ RLt(Rat(entry_price, 1), take_profit)
    ELSE RLt(take_profit, Rat(entry_price, 1))
         /\ RLt(Rat(entry_price, 1), stop_loss)

\* The close lies strictly between the two levels, having reached neither.
BetweenLevels(close, stop_loss, take_profit) ==
    \/ RLt(stop_loss, Rat(close, 1)) /\ RLt(Rat(close, 1), take_profit)
    \/ RLt(take_profit, Rat(close, 1)) /\ RLt(Rat(close, 1), stop_loss)

\* C22: every position run opens has its stop-loss on the losing side of its
\* entry price and its take-profit on the winning side (buy: stop_loss <
\* entry < take_profit; sell: take_profit < entry < stop_loss), so a position
\* is closed only on a bar whose close has reached one of the two levels.
C22_LevelsOnTheirSides ==
    /\ tb_position # None
       => LevelsOnTheirSides(tb_position[1].side,
                             tb_position[1].entry_price,
                             tb_position[1].stop_loss,
                             tb_position[1].take_profit)
    /\ \A k \in 1..Len(tb_results) :
          ~BetweenLevels(
              tb_results[k].exit_price,
              get_stop_loss_take_profit(tb_results[k].entry_price).stop_loss,
              get_stop_loss_take_profit(tb_results[k].entry_price).take_profit)

(***************************************************************************)
(* A further claim about the backtesting BacktestEngine, checked under     *)
(* Spec.                                                                   *)
(***************************************************************************)

\* The number of recorded trades of the type in the symbol.
NumTrades(ts, symbol, type) ==
    Cardinality({k \in 1..Len(ts) : ts[k].symbol = symbol /\ ts[k].type = type})

\* A sell signal for a symbol without an open position leaves the ledger as
\* it is, at any close and volatility.
SellWithoutPositionIsNoOp ==
    LET p == [cash |-> cash, positions |-> positions, trades |-> trades]
    IN  \A symbol \in Symbols \ DOMAIN positions :
          \A close \in Prices, volatility \in Volatilities :
            ExecuteOne(p, symbol, -1, close, volatility, equity, bar + 1) = p

OrderRaises ==
    /\ lt_pc \in {"logic", "update"}
    /\ lt_pc' = "caught"
    /\ lt_error' = "create_order"

\* C24: when exchange.create_order raises while LiveTrader is opening or
\* closing a position, positions and trades are left exactly as they were
\* before the order attempt, the error is caught, and the loop goes on to
\* the next iteration with positions and trades still as they were.
C24_FailedOrderChangesNothing ==
    /\ [][OrderRaises => UNCHANGED <<lt_positions, lt_trades>>]_vars
    /\ [][lt_pc = "caught"
          => lt_pc' = "fetch" /\ UNCHANGED <<lt_positions, lt_trades>>]_vars
    /\ [](lt_pc = "caught" => ENABLED LiveCaught)
    /\ [](lt_pc = "fetch" => ENABLED LiveFetch)

C24_Witness ==
    /\ lt_pc = "fetch"
    /\ lt_error = "create_order"
    /\ LiveSymbol \in DOMAIN lt_positions
    /\ Len(lt_trades) = 1

(***************************************************************************)
(* A further claim about PriceMonitor, checked under MonitorSpec.          *)
(***************************************************************************)

\* The step of a monitor_price call in which fetching the price fails.
FetchFails == now' # now /\ mon_call'.op = "monitor_price_failed"

\* The step of a monitor_price call that obtains a price, right after a call
\* in which fetching failed.
CallAfterFailure ==
    /\ mon_call.op = "monitor_price_failed"
    /\ now' # now
    /\ mon_call'.op = "monitor_price"

\* C25: monitor_price returns without an exception; when fetching the price
\* fails, price_log and initial_price are unchanged, nothing is saved and no
\* alert is sent; and a later call proceeds normally: with the price it
\* obtains it logs it as the newest entry, sets the initial price if there
\* was none and alerts as the call would have without the failure.
C25_FailedFetchChangesNothing ==
    /\ [][FetchFails
          => /\ UNCHANGED <<price_log, initial_price, price_file>>
             /\ ~mon_call'.alert]_vars
    /\ [][CallAfterFailure
          => /\ price_log' = logged(price_log, now', mon_call'.price)
             /\ initial_price' = IF initial_price = None
                                 THEN Some(mon_call'.price)
                                 ELSE initial_price
             /\ mon_call'.alert
                  = IF initial_price = None THEN TRUE
                    ELSE significant(percentage_change(
                            Rat(mon_call'.price, 1),
                            last_price_of(price_log', initial_price)))]_vars

C25_Witness ==
    /\ mon_call.op = "monitor_price_failed"
    /\ mon_call.initial_known
    /\ Len(price_log) = 2
    /\ price_file # None
    /\ price_file[1].price_log = price_log
    /\ now < MaxTime

====
